---- MODULE Spec2Model ----
(***************************************************************************)
(* PiMusic-Bot: the per-guild playback orchestrator of src/src/bot.py and  *)
(* the web API of src/src/web.py, as a state machine.                      *)
(*                                                                         *)
(* One guild is modelled.  `state` holds the fields of the ServerState     *)
(* object that MusicBot.states maps the guild to; `registered` says        *)
(* whether the guild has an entry, and `gen` numbers the ServerState       *)
(* objects created so far.  A coroutine keeps the object it got from       *)
(* get_state() across its awaits, so each suspended coroutine carries the  *)
(* `gen` of its object: a write through an object that is no longer the    *)
(* registered one changes nothing any other code can read.                 *)
(*                                                                         *)
(* Every await that leaves the event loop (run_in_executor, disconnect,    *)
(* send, sleep) is a suspension point: the handler is split there into     *)
(* one action per synchronous stretch.  loop.create_task() adds to `pend`; *)
(* the task's first stretch is a later action.                             *)
(***************************************************************************)
EXTENDS Integers, Sequences, FiniteSets, TLC

\* ---------------------------------------------------------------- bounds
NumIds == 2        \* track ids the resolver returns for user requests
FeedIds == 3       \* track ids the recommendation feed ranges over
MaxQueue == 2      \* queue entries counted before a request appends more
MaxFetch == 2      \* ensure_autoplay coroutines suspended at once
MaxAdv == 2        \* play_next coroutines suspended at once
MaxPend == 1       \* created tasks of one kind waiting to start
MaxGen == 2        \* ServerState objects created for the guild
MaxPlays == 3      \* pops per ServerState
MaxStops == 2      \* stop_logic coroutines suspended at once
MaxBusy == 3       \* overlapping operations
SessionPlays == 1  \* pops per ServerState in SpecSession
SessionBusy == 2   \* overlapping operations in SpecSession
SessionAdv == 1    \* play_next coroutines suspended at once in SpecSession
StopPlays == 1     \* tracks played in a session that is stopped
StopBusy == 2      \* coroutines and tasks outstanding when a stop is requested
StopFetch == 1     \* fetches in flight in a session that is stopped
StopAdv == 1       \* play_next coroutines suspended in a session that is stopped
OpsPlays == 2      \* pops per ServerState in SpecOps
OpsBusy == 1       \* overlapping operations in SpecOps
OpsFetch == 1      \* fetches in flight in SpecOps
OpsAdv == 1        \* play_next coroutines suspended at once in SpecOps
PlaybackFetch == 1 \* fetches in flight in SpecPlayback
RegenPlays == 1
RegenBusy == 2
RegenFetch == 2
RegenAdv == 1
LivePlays == 2
LiveBusy == 1
LiveFetch == 1
LiveAdv == 1
NumGuilds == 2              \* guilds of the runs with several guilds
GuildQueue == 1             \* user tracks in a guild's queue there
GuildPlays == 2             \* pops per guild there
GuildIds == 1               \* track ids the users of a guild ask for there
LongIds == 23               \* track ids asked for in the runs that fill the history
LongBusy == 1               \* overlapping operations there
WideFeed == 7               \* track ids the feed ranges over in the runs with a long feed
WidePlays == 2              \* pops per ServerState there
WideBusy == 1               \* overlapping operations there
TickSeconds == 120          \* step of the clock in the runs of the idle sweep
MaxClock == 360             \* seconds those runs last


\* ------------------------------------------------------ program constants
HistoryCap == 20
MaxCandidates == 5
SweepSeconds == 120         \* @tasks.loop(minutes=2)
IdleSeconds == 300
MinAudioKiB == 1            \* bot.py 962: a local file must exceed 1024 bytes

\* The cache: sizes are counted in KiB.
MaxCacheSizeGB == 1         \* MAX_CACHE_SIZE_GB of the runs
NumFiles == 4               \* audio files in CACHE_DIR
MaxRemoveFails == 2         \* removals that raise OSError in one sweep
MaxDownloads == 2           \* background_download coroutines in flight
PrefetchFiles == 2          \* audio files CACHE_DIR starts with under prefetch
PrefetchIds == 3            \* ids the prefetch runs play and download
PrefetchOps == 3            \* plays and prefetches of one run
ThumbKiB == 16              \* size of a thumbnail
KiBPerGiB == 1048576
MarginKiB == 102400
AudioSizes == {300 * 1024, 624 * 1024}

Ids == 1..NumIds

\* ----------------------------------------------------------------- tracks
\* A queue entry.  `seed` is 0 for a user track; for a suggestion it records
\* the id whose mix the entry was fetched from (the program does not store it).
Track(id, sug, seed) == [id |-> id, suggested |-> sug, seed |-> seed]
UserTrack(id) == Track(id, FALSE, 0)
NoTrack == Track(0, FALSE, 0)

IsSuggested(t) == t.suggested
IsUser(t) == ~t.suggested
StripSuggested(q) == SelectSeq(q, IsUser)
OnlySuggested(q) == SelectSeq(q, IsSuggested)
Last(q) == q[Len(q)]
Front(q) == SubSeq(q, 1, Len(q) - 1)
QueueIds(q) == {q[i].id : i \in 1..Len(q)}

\* ----------------------------------------------------------------- state
VARIABLES
    registered,   \* guild_id in self.states
    gen,          \* number of ServerState objects created for the guild
    state,        \* the registered ServerState (its defaults when none is)
    vc,           \* guild.voice_client: "none", "connected", "disconnecting"
    playing,      \* voice_client.is_playing()
    fetches,      \* ensure_autoplay coroutines suspended in the mix fetch
    advs,         \* play_next coroutines suspended after their pop
    enq,          \* the prepare_song / api_add coroutine suspended resolving
    load,         \* the loadplaylist / load_rest_of_playlist coroutine
    stops,        \* stop_logic coroutines suspended in disconnect()
    pend,         \* tasks created with create_task and not yet started
    obs,          \* observations of the run (not program state)
    lim,          \* the bounds of the run, fixed by the initial state
    cache,        \* CACHE_DIR, cache_map and the position of the eviction sweep
    guilds        \* self.states and the voice clients, for the runs with several guilds

vars == <<registered, gen, state, vc, playing, fetches, advs, enq, load, stops, pend, obs, lim, cache,
          guilds>>

\* The variables of the guild sessions.
session == <<registered, gen, state, vc, playing, fetches, advs, enq, load, stops, pend, obs, lim>>

ServerState ==
    [queue |-> <<>>, current_track |-> NoTrack, history |-> <<>>,
     autoplay |-> FALSE, fetching_autoplay |-> FALSE,
     processing_next |-> FALSE, stopping |-> FALSE]

NoFetch == [live |-> FALSE, gen |-> 0, seed |-> 0, avoid |-> 0, toggle |-> FALSE, during |-> 0,
            regen |-> FALSE]
NoAdv == [phase |-> "idle", gen |-> 0, id |-> 0]
NoEnq == [phase |-> "idle", gen |-> 0, kind |-> "single", tracks |-> <<>>, trimmed |-> FALSE]
\* What one request adds: the resolver's answer for a query, one track here.
Batches == {<<UserTrack(i)>> : i \in Ids}
NoLoad == [phase |-> "idle", gen |-> 0, rest |-> FALSE]
\* `retry` is the id of the track whose failed load the waiting play_next task
\* follows (0: the task follows the end of a track); only runs that log
\* "retry" keep it.
NoPend == [force |-> 0, soft |-> 0, advance |-> 0, rest |-> 0, retry |-> 0]
\* The last request the log holds: its kind, its argument (for a clear, the
\* number of entries it dropped), the reply the caller got; `tick` flips each
\* time a request is logged.
NoRequest == [op |-> "none", arg |-> 0, reply |-> "none", tick |-> FALSE]
NoObs == [disconnectCalls |-> 0, stopRaised |-> FALSE, tail |-> 0, replaced |-> FALSE,
          last |-> NoRequest]

\* self.states after MusicBot.__init__: no guild has an entry (an absent
\* entry is written with the defaults), no voice client, no fetch in flight.
Guilds == 1..NumGuilds
NoGuilds ==
    [has |-> [g \in Guilds |-> FALSE],
     of |-> [g \in Guilds |-> ServerState],
     voice |-> [g \in Guilds |-> "none"],
     playing |-> [g \in Guilds |-> FALSE],
     fetch |-> [g \in Guilds |-> NoFetch],
     last |-> 0,
     now |-> 0,                                 \* datetime.now(), in seconds
     seen |-> [g \in Guilds |-> 0],             \* state.last_interaction
     quiet |-> [g \in Guilds |-> 0],            \* since when nothing plays (an observation)
     others |-> [g \in Guilds |-> 0],           \* members of the voice channel besides the bot
     sweep |-> [at |-> 0, rest |-> <<>>, waiting |-> 0, raised |-> FALSE]]

\* The cache of the runs that follow the sessions only: an empty directory.
\* tasks are the background_download coroutines in flight; used, played and
\* since record the order of the last play or write of each cached id, the
\* ids played from the cache, and the KiB written since the last scan.
NoTask == [id |-> 0, phase |-> "none", streamed |-> FALSE]

NoCache == [dir |-> {}, index |-> {}, phase |-> "idle", files |-> <<>>, total |-> 0,
            before |-> {}, deleted |-> <<>>, failed |-> {}, thumbFailed |-> {},
            tasks |-> [i \in 1..MaxDownloads |-> NoTask], used |-> <<>>,
            played |-> {}, since |-> 0, ops |-> 0, checked |-> FALSE]

\* The state after MusicBot.__init__: no guild has a ServerState.  The
\* arguments bound the run: pops per session, overlapping operations, and the
\* sizes of the tables of suspended ensure_autoplay / play_next coroutines.
InitLim(l, nFetch, nAdv) ==
    /\ lim = l
    /\ registered = FALSE
    /\ gen = 0
    /\ state = ServerState
    /\ vc = "none"
    /\ playing = FALSE
    /\ fetches = [i \in 1..nFetch |-> NoFetch]
    /\ advs = [i \in 1..nAdv |-> NoAdv]
    /\ enq = NoEnq
    /\ load = NoLoad
    /\ stops = 0
    /\ pend = NoPend
    /\ obs = NoObs

InitGuild(plays, busy, nFetch, nAdv, log) ==
    InitLim([plays |-> plays, busy |-> busy, log |-> log, feed |-> FeedIds], nFetch, nAdv)

InitAll(plays, busy, nFetch, nAdv, log) ==
    /\ InitGuild(plays, busy, nFetch, nAdv, log)
    /\ cache = NoCache
    /\ guilds = NoGuilds

\* Runs that keep no log of requests.
InitWith(plays, busy, nFetch, nAdv) == InitAll(plays, busy, nFetch, nAdv, {})

Init == InitWith(MaxPlays, MaxBusy, MaxFetch, MaxAdv)

\* get_state: the registered object, or a new one.
CanGetState == registered \/ gen < MaxGen
GetState == IF registered THEN state ELSE ServerState
GetGen == IF registered THEN gen ELSE gen + 1
\* Whether a suspended coroutine's object is still the registered one.
Owns(g) == registered /\ g = gen


\* Free slots of the coroutine tables: the lowest idle one is used.
HasFreeFetch(fs) == \E i \in DOMAIN fs : ~fs[i].live
FreeFetch(fs) == CHOOSE i \in DOMAIN fs : ~fs[i].live /\ \A j \in 1..(i - 1) : fs[j].live
HasFreeAdv(as) == \E i \in DOMAIN as : as[i].phase = "idle"
FreeAdv(as) == CHOOSE i \in DOMAIN as : as[i].phase = "idle" /\ \A j \in 1..(i - 1) : as[j].phase /= "idle"

\* The suspended fetches are a bag: the live ones are kept in the low slots.
Compact(fs) ==
    LET live == SelectSeq(fs, LAMBDA f : f.live)
    IN [i \in DOMAIN fs |-> IF i <= Len(live) THEN live[i] ELSE NoFetch]

\* Bound of the model: the coroutines suspended and the tasks waiting to
\* start; a new request is taken only while there are fewer than lim.busy.
Count(b) == IF b THEN 1 ELSE 0
Busy ==
    Cardinality({i \in DOMAIN fetches : fetches[i].live})
    + Cardinality({i \in DOMAIN advs : advs[i].phase /= "idle"})
    + Count(enq.phase /= "idle") + Count(load.phase /= "idle")
    + pend.force + pend.soft + pend.advance + pend.rest + stops
Idle == Busy < lim.busy

\* An operation other than the enqueue itself touched the session: the
\* observation of the last enqueued tail is dropped.
Disturb(o) == [o EXCEPT !.tail = 0, !.replaced = FALSE]

\* The log after a request of kind op with argument arg was answered; only
\* runs log the kinds of request in lim.log.
Logged(o, op, arg, reply) ==
    IF op \in lim.log
    THEN [o EXCEPT !.last = [op |-> op, arg |-> arg, reply |-> reply, tick |-> ~o.last.tick]]
    ELSE o

\* ------------------------------------------------------------ play_next
\* bot.py 949-951: the guards at the head of play_next (v is guild.voice_client).
PlayNextPasses(s, v) == ~s.stopping /\ v = "connected" /\ ~s.processing_next
PlayNextPops(s, v) == PlayNextPasses(s, v) /\ s.queue /= <<>>

PushHistoryNoTrim(h, t) == Append(h, t)

\* bot.py 957-958: history.append, then pop(0) beyond 20 entries.
PushHistory(h, t) ==
    IF Len(h) + 1 > HistoryCap THEN Tail(Append(h, t)) ELSE Append(h, t)

PlayNextKeepsCurrent(s, v) ==
    IF ~PlayNextPasses(s, v) THEN s
    ELSE IF s.queue /= <<>>
         THEN [s EXCEPT !.processing_next = TRUE,
                        !.queue = Tail(s.queue),
                        !.current_track = Head(s.queue),
                        !.history = PushHistory(s.history, Head(s.queue))]
         ELSE [s EXCEPT !.processing_next = FALSE]

PlayNextTakesLast(s, v) ==
    IF ~PlayNextPasses(s, v) THEN s
    ELSE IF s.queue /= <<>>
         THEN [s EXCEPT !.processing_next = TRUE,
                        !.queue = Front(s.queue),
                        !.current_track = Last(s.queue),
                        !.history = PushHistory(s.history, Last(s.queue))]
         ELSE [s EXCEPT !.current_track = NoTrack, !.processing_next = FALSE]

\* bot.py 953-958 and 1012-1014: the synchronous head of play_next.
PlayNextState(s, v) ==
    IF ~PlayNextPasses(s, v) THEN s
    ELSE IF s.queue /= <<>>
         THEN [s EXCEPT !.processing_next = TRUE,
                        !.queue = Tail(s.queue),
                        !.current_track = Head(s.queue),
                        !.history = PushHistory(s.history, Head(s.queue))]
         ELSE [s EXCEPT !.current_track = NoTrack, !.processing_next = FALSE]

\* The coroutine then suspends resolving / probing the popped track.
PlayNextAdvs(as, s, v, g) ==
    IF PlayNextPops(s, v)
    THEN [as EXCEPT ![FreeAdv(as)] = [phase |-> "loading", gen |-> g, id |-> Head(s.queue).id]]
    ELSE as

\* Bound of the model: pops per session and suspended play_next coroutines.
PlayNextBounded(as, s, v) ==
    PlayNextPops(s, v) => (HasFreeAdv(as) /\ Len(s.history) < lim.plays)

\* ------------------------------------------------------- ensure_autoplay
EnsureIgnoresSuggestion(s, force) ==
    \/ ~s.autoplay
    \/ (s.fetching_autoplay /\ ~force)

\* bot.py 801-817: the paths that return before a seed is looked for.
EnsureReturnsEarly(s, force) ==
    \/ ~s.autoplay
    \/ (s.fetching_autoplay /\ ~force)
    \/ /\ OnlySuggested(s.queue) /= <<>>
       /\ ~(force \/ ~Last(s.queue).suggested \/ Len(OnlySuggested(s.queue)) > 1)

\* bot.py 801-817: the queue after the synchronous head of ensure_autoplay.
EnsureQueue(s, force) ==
    IF ~s.autoplay THEN StripSuggested(s.queue)
    ELSE IF s.fetching_autoplay /\ ~force THEN s.queue
    ELSE IF /\ OnlySuggested(s.queue) /= <<>>
            /\ (force \/ ~Last(s.queue).suggested \/ Len(OnlySuggested(s.queue)) > 1)
         THEN StripSuggested(s.queue)
         ELSE s.queue

SeedOfFirstUser(q, cur, hist) ==
    IF StripSuggested(q) /= <<>> THEN Head(StripSuggested(q)).id
    ELSE IF cur /= NoTrack THEN cur.id
    ELSE IF hist /= <<>> THEN Last(hist).id
    ELSE 0

\* bot.py 819-829: last user track of the queue, else current, else history[-1].
SeedOf(q, cur, hist) ==
    IF StripSuggested(q) /= <<>> THEN Last(StripSuggested(q)).id
    ELSE IF cur /= NoTrack THEN cur.id
    ELSE IF hist /= <<>> THEN Last(hist).id
    ELSE 0

EnsureSeed(s, force) == SeedOf(EnsureQueue(s, force), s.current_track, s.history)

\* Whether the call reaches line 832 and suspends in the fetch.
EnsureFetches(s, force) == ~EnsureReturnsEarly(s, force) /\ EnsureSeed(s, force) /= 0

\* bot.py 795-832: the ServerState after the synchronous head.
EnsureState(s, force) ==
    [s EXCEPT !.queue = EnsureQueue(s, force),
              !.fetching_autoplay = IF EnsureFetches(s, force) THEN TRUE ELSE @]

\* The fetches in flight after the call; `during` counts, for each fetch of the
\* same object that is outstanding, the fetches forced calls started meanwhile.
Bump(f, g, force) ==
    IF f.live /\ f.gen = g /\ force
    THEN [f EXCEPT !.during = IF @ < 2 THEN @ + 1 ELSE @]
    ELSE f

EnsureFetchTable(fs, s, g, avoid, force, toggle) ==
    IF EnsureFetches(s, force)
    THEN [i \in DOMAIN fs |->
            IF i = FreeFetch(fs)
            THEN [live |-> TRUE, gen |-> g, seed |-> EnsureSeed(s, force),
                  avoid |-> avoid, toggle |-> toggle, during |-> 0, regen |-> FALSE]
            ELSE Bump(fs[i], g, force)]
    ELSE fs

EnsureBounded(fs, s, force) == EnsureFetches(s, force) => HasFreeFetch(fs)

\* The recommendation feed: the mix of a seed starts with the seed itself and
\* goes on through the other ids (YDL_MIX_OPTS: the first 20 entries).
Feed(seed) == [i \in 1..lim.feed |-> ((seed + i - 2) % lim.feed) + 1]

HistoryIds(h) ==
    {h[i].id : i \in (IF Len(h) > HistoryCap THEN Len(h) - HistoryCap + 1 ELSE 1)..Len(h)}

FirstN(s, n) == IF Len(s) > n THEN SubSeq(s, 1, n) ELSE s

CandidatesUncut(s, seed, avoid) ==
    SelectSeq(Feed(seed),
              LAMBDA e : /\ e /= seed
                         /\ e /= avoid
                         /\ e \notin HistoryIds(s.history)
                         /\ e \notin QueueIds(s.queue))

\* bot.py 838-853: the filter over the feed, cut at 5 candidates.
Candidates(s, seed, avoid) ==
    FirstN(SelectSeq(Feed(seed),
                     LAMBDA e : /\ e /= seed
                                /\ e /= avoid
                                /\ e \notin HistoryIds(s.history)
                                /\ e \notin QueueIds(s.queue)),
           MaxCandidates)

AppendSuggestionNoStrip(q, t) == Append(q, t)

\* bot.py 855-861: strip what is suggested, then append the pick.
AppendSuggestion(q, t) == Append(StripSuggested(q), t)

\* bot.py 833-866: the state after the fetch, when candidate k is picked
\* (k = 0: the fetch raised, returned no entries, or nothing passed the filter).
FetchDoneState(s, f, k) ==
    [s EXCEPT !.queue = IF k = 0 THEN @
                        ELSE AppendSuggestion(@, Track(Candidates(s, f.seed, f.avoid)[k], TRUE, f.seed)),
              !.fetching_autoplay = FALSE]

FetchPicks(s, f) == 0..Len(Candidates(s, f.seed, f.avoid))

\* The picks of a fetch that may raise, and of one that is answered.
FetchOutcomes(s, f, mayFail) ==
    IF mayFail \/ Candidates(s, f.seed, f.avoid) = <<>>
    THEN FetchPicks(s, f)
    ELSE FetchPicks(s, f) \ {0}


\* ------------------------------------------------- autoplay engine actions
\* A task made by create_task(self.ensure_autoplay(gid, force=...)) starts.
RunEnsureTask(force) ==
    /\ UNCHANGED <<lim, cache, guilds>>
    /\ IF force THEN pend.force > 0 ELSE pend.soft > 0
    /\ CanGetState
    /\ EnsureBounded(fetches, GetState, force)
    /\ state' = EnsureState(GetState, force)
    /\ fetches' = EnsureFetchTable(fetches, GetState, GetGen, 0, force, FALSE)
    /\ registered' = TRUE
    /\ gen' = GetGen
    /\ pend' = IF force THEN [pend EXCEPT !.force = @ - 1] ELSE [pend EXCEPT !.soft = @ - 1]
    /\ obs' = Logged(obs, "ensure", Count(force),
                     IF EnsureFetches(GetState, force) THEN "fetch" ELSE "return")
    /\ UNCHANGED <<vc, playing, advs, enq, load, stops>>

\* The mix fetch of ensure_autoplay returns (bot.py 835-866).  When the
\* caller was the autoplay toggle, its tail runs in the same stretch
\* (bot.py 1261-1262, web.py 414-421).
FetchReturn(i, mayFail) ==
    /\ UNCHANGED <<lim, cache, guilds>>
    /\ fetches[i].live
    /\ fetches' = Compact([fetches EXCEPT ![i] = NoFetch])
    /\ LET f == fetches[i] IN
       IF Owns(f.gen)
       THEN \E k \in FetchOutcomes(state, f, mayFail) :
              LET s1 == FetchDoneState(state, f, k)
                  go == /\ f.toggle /\ s1.autoplay /\ s1.queue /= <<>>
                        /\ vc /= "none" /\ ~playing
              IN /\ go => PlayNextBounded(advs, s1, vc)
                 /\ state' = IF go THEN PlayNextState(s1, vc) ELSE s1
                 /\ advs' = IF go THEN PlayNextAdvs(advs, s1, vc, gen) ELSE advs
                 /\ obs' = IF go /\ PlayNextPops(s1, vc) THEN Disturb(obs)
                           ELSE [obs EXCEPT !.replaced = k /= 0 /\ OnlySuggested(state.queue) /= <<>>]
                 /\ UNCHANGED <<registered, gen>>
       ELSE \* the object was dropped from the registry: only the toggle's
            \* play_next, which calls get_state again, can be seen
            \E go \in (IF f.toggle /\ vc /= "none" /\ ~playing THEN BOOLEAN ELSE {FALSE}) :
              IF go
              THEN /\ CanGetState
                   /\ PlayNextBounded(advs, GetState, vc)
                   /\ state' = PlayNextState(GetState, vc)
                   /\ advs' = PlayNextAdvs(advs, GetState, vc, GetGen)
                   /\ registered' = TRUE
                   /\ gen' = GetGen
                   /\ obs' = Disturb(obs)
              ELSE UNCHANGED <<registered, gen, state, advs, obs>>
    /\ UNCHANGED <<vc, playing, enq, load, stops, pend>>

FetchDone(i) == FetchReturn(i, TRUE)

\* The fetch returns and the feed has answered: it did not raise.
FetchAnswered(i) == FetchReturn(i, FALSE)

\* /autoplay (bot.py 1255-1264) and api_control 'autoplay' (web.py 411-421).
AutoplayToggle ==
    /\ UNCHANGED <<lim, cache, guilds>>
    /\ Idle
    /\ CanGetState
    /\ LET s1 == [GetState EXCEPT !.autoplay = ~@]
           s2 == EnsureState(s1, FALSE)
           go == /\ ~EnsureFetches(s1, FALSE) /\ s2.autoplay /\ s2.queue /= <<>>
                 /\ vc /= "none" /\ ~playing
       IN /\ EnsureBounded(fetches, s1, FALSE)
          /\ go => PlayNextBounded(advs, s2, vc)
          /\ state' = IF go THEN PlayNextState(s2, vc) ELSE s2
          /\ fetches' = EnsureFetchTable(fetches, s1, GetGen, 0, FALSE, TRUE)
          /\ advs' = IF go THEN PlayNextAdvs(advs, s2, vc, GetGen) ELSE advs
    /\ registered' = TRUE
    /\ gen' = GetGen
    /\ obs' = Disturb(obs)
    /\ UNCHANGED <<vc, playing, enq, load, stops, pend>>

\* The mutant of RegenerateState: the last entry is popped whatever it is.
RegeneratePopsAny(s) ==
    IF ~s.autoplay THEN s
    ELSE IF s.queue /= <<>> THEN [s EXCEPT !.queue = Front(@)] ELSE s

\* regenerate_autoplay (bot.py 868-882).
RegenerateState(s) ==
    IF ~s.autoplay THEN s
    ELSE IF s.queue /= <<>> /\ Last(s.queue).suggested
         THEN [s EXCEPT !.queue = Front(@)]
         ELSE s

RegenerateAvoid(s) ==
    IF s.queue /= <<>> /\ Last(s.queue).suggested THEN Last(s.queue).id ELSE 0

\* In the runs that follow regenerate_autoplay, the fetch it waits for is
\* marked: its return is the end of the request.
RegenerateMark(fs, s1, table) ==
    IF "regenerate" \in lim.log /\ EnsureFetches(s1, TRUE)
    THEN [table EXCEPT ![FreeFetch(fs)].regen = TRUE]
    ELSE table

Regenerate ==
    /\ UNCHANGED <<lim, cache, guilds>>
    /\ Idle
    /\ CanGetState
    /\ LET s0 == GetState
           s1 == RegenerateState(s0)
       IN IF ~s0.autoplay
          THEN state' = s0 /\ fetches' = fetches
          ELSE /\ EnsureBounded(fetches, s1, TRUE)
               /\ state' = EnsureState(s1, TRUE)
               /\ fetches' = RegenerateMark(fetches, s1,
                                EnsureFetchTable(fetches, s1, GetGen, RegenerateAvoid(s0), TRUE, FALSE))
    /\ registered' = TRUE
    /\ gen' = GetGen
    /\ obs' = Disturb(obs)
    /\ UNCHANGED <<vc, playing, advs, enq, load, stops, pend>>

\* ------------------------------------------------------- queue operations
Perms(n) == {p \in [1..n -> 1..n] : \A i, j \in 1..n : p[i] = p[j] => i = j}

ShuffleSuggestedFirst(q, p) ==
    OnlySuggested(q) \o [i \in 1..Len(StripSuggested(q)) |-> StripSuggested(q)[p[i]]]

\* /shuffle, the panel button and api_control 'shuffle'
\* (bot.py 1109-1116, 125-132; web.py 406-410).
ShuffleQueue(q, p) ==
    [i \in 1..Len(StripSuggested(q)) |-> StripSuggested(q)[p[i]]] \o OnlySuggested(q)

Shuffle ==
    /\ UNCHANGED <<lim, cache, guilds>>
    /\ Idle
    /\ CanGetState
    /\ \E p \in Perms(Len(StripSuggested(GetState.queue))) :
         state' = [GetState EXCEPT !.queue = ShuffleQueue(@, p)]
    /\ registered' = TRUE
    /\ gen' = GetGen
    /\ obs' = Logged(Disturb(obs), "shuffle", 0, "ok")
    /\ UNCHANGED <<vc, playing, fetches, advs, enq, load, stops, pend>>

\* /clear and api_control 'clear' (bot.py 1079-1087; web.py 401-405).
ClearAll(s) == <<>>

ClearQueue(s) == IF s.autoplay THEN OnlySuggested(s.queue) ELSE <<>>

Clear ==
    /\ UNCHANGED <<lim, cache, guilds>>
    /\ Idle
    /\ CanGetState
    /\ state' = [GetState EXCEPT !.queue = ClearQueue(GetState)]
    /\ registered' = TRUE
    /\ gen' = GetGen
    /\ obs' = Logged(Disturb(obs), "clear", Len(GetState.queue) - Len(ClearQueue(GetState)), "ok")
    /\ UNCHANGED <<vc, playing, fetches, advs, enq, load, stops, pend>>

RemoveNeverRejected(s, index) == FALSE

\* api_remove (web.py 427-439); index is 0-based as in the route.
RemoveRejected(s, index) ==
    /\ 0 <= index /\ index < Len(s.queue)
    /\ s.queue[index + 1].suggested /\ s.autoplay

\* web.py 436 and 438: 400 with an error body, or 200 {'status': 'ok'}.
RemoveReply(s, index) == IF RemoveRejected(s, index) THEN "error" ELSE "ok"

RemoveQueue(s, index) ==
    IF 0 <= index /\ index < Len(s.queue) /\ ~RemoveRejected(s, index)
    THEN SubSeq(s.queue, 1, index) \o SubSeq(s.queue, index + 2, Len(s.queue))
    ELSE s.queue

Remove(index) ==
    /\ UNCHANGED <<lim, cache, guilds>>
    /\ Idle
    /\ CanGetState
    /\ state' = [GetState EXCEPT !.queue = RemoveQueue(GetState, index)]
    /\ registered' = TRUE
    /\ gen' = GetGen
    /\ obs' = Logged(Disturb(obs), "remove", index, RemoveReply(GetState, index))
    /\ UNCHANGED <<vc, playing, fetches, advs, enq, load, stops, pend>>


\* ------------------------------------------------------ playback actions
\* A task made by create_task(self.play_next(ctx)) starts: the after-callback
\* of voice_client.play (bot.py 988) or the retry (bot.py 1011).
RunAdvanceTask ==
    /\ UNCHANGED <<lim, cache, guilds>>
    /\ pend.advance > 0
    /\ CanGetState
    /\ PlayNextBounded(advs, GetState, vc)
    /\ state' = PlayNextState(GetState, vc)
    /\ advs' = PlayNextAdvs(advs, GetState, vc, GetGen)
    /\ registered' = TRUE
    /\ gen' = GetGen
    /\ pend' = [pend EXCEPT !.advance = @ - 1, !.retry = 0]
    /\ obs' = IF PlayNextPops(GetState, vc) THEN Disturb(obs) ELSE obs
    /\ UNCHANGED <<vc, playing, fetches, enq, load, stops>>

\* voice_client.play raises unless connected and not already playing.
PlayAccepted == vc = "connected" /\ ~playing

\* The mutant of ClearProcessing: the flag is left as it is.
KeepProcessing(g) == state

\* bot.py 989 / 1009: the coroutine clears processing_next of its own object.
ClearProcessing(g) ==
    IF Owns(g) THEN [state EXCEPT !.processing_next = FALSE] ELSE state

\* bot.py 960-1005: the source is ready and play() accepts it; the guard is
\* cleared, the autoplay pass is scheduled, and the coroutine suspends in the
\* now-playing send.  get_notification_channel calls get_state unless the
\* guild has a bound channel (bot.py 750-759).
LoadOk(i) ==
    /\ UNCHANGED <<lim, cache, guilds>>
    /\ advs[i].phase = "loading"
    /\ PlayAccepted
    /\ pend.soft < MaxPend
    /\ playing' = TRUE
    /\ pend' = [pend EXCEPT !.soft = @ + 1]
    /\ advs' = [advs EXCEPT ![i].phase = "notifying"]
    /\ \E bound \in BOOLEAN :
         IF bound \/ registered
         THEN /\ state' = ClearProcessing(advs[i].gen)
              /\ UNCHANGED <<registered, gen>>
         ELSE /\ gen < MaxGen
              /\ state' = ServerState
              /\ registered' = TRUE
              /\ gen' = gen + 1
    /\ UNCHANGED <<vc, fetches, enq, load, stops, obs>>

\* bot.py 1007-1010: resolving, probing or play() raised.
LoadFail(i) ==
    /\ UNCHANGED <<lim, cache, guilds>>
    /\ advs[i].phase = "loading"
    /\ state' = ClearProcessing(advs[i].gen)
    /\ advs' = [advs EXCEPT ![i].phase = "backoff"]
    /\ UNCHANGED <<registered, gen, vc, playing, fetches, enq, load, stops, pend, obs>>

\* bot.py 1005: the now-playing message was sent.
NotifyOk(i) ==
    /\ UNCHANGED <<lim, cache, guilds>>
    /\ advs[i].phase = "notifying"
    /\ advs' = [advs EXCEPT ![i] = NoAdv]
    /\ UNCHANGED <<registered, gen, state, vc, playing, fetches, enq, load, stops, pend, obs>>

\* bot.py 1005-1010: the send raised, after playback had started.
NotifyFail(i) ==
    /\ UNCHANGED <<lim, cache, guilds>>
    /\ advs[i].phase = "notifying"
    /\ state' = ClearProcessing(advs[i].gen)
    /\ advs' = [advs EXCEPT ![i].phase = "backoff"]
    /\ UNCHANGED <<registered, gen, vc, playing, fetches, enq, load, stops, pend, obs>>

\* bot.py 1010-1011: the sleep ends and the retry task is created.
BackoffDone(i) ==
    /\ UNCHANGED <<lim, cache, guilds>>
    /\ advs[i].phase = "backoff"
    /\ pend.advance < MaxPend
    /\ advs' = [advs EXCEPT ![i] = NoAdv]
    /\ pend' = [pend EXCEPT !.advance = @ + 1,
                            !.retry = IF "retry" \in lim.log THEN advs[i].id ELSE @]
    /\ UNCHANGED <<registered, gen, state, vc, playing, fetches, enq, load, stops, obs>>

\* The track ends or is skipped (voice_client.stop(), bot.py 1073-1077):
\* the after-callback creates a play_next task.
Finish ==
    /\ UNCHANGED <<lim, cache, guilds>>
    /\ Idle
    /\ playing
    /\ pend.advance < MaxPend
    /\ playing' = FALSE
    /\ pend' = [pend EXCEPT !.advance = @ + 1]
    /\ UNCHANGED <<registered, gen, state, vc, fetches, advs, enq, load, stops, obs>>

\* ------------------------------------------------------------- stop_logic
\* bot.py 714-726, up to the await: disconnect() stops the player first, so
\* the after-callback fires.  A call that finds the client already
\* disconnecting either returns from disconnect() at once or waits too.
StopStart ==
    /\ UNCHANGED <<lim, cache, guilds>>
    /\ Idle
    /\ registered
    /\ IF vc = "none"
       THEN /\ registered' = FALSE
            /\ state' = ServerState
            /\ UNCHANGED <<vc, playing, stops, pend>>
            /\ obs' = Disturb(obs)
       ELSE /\ playing => pend.advance < MaxPend
            /\ playing' = FALSE
            /\ pend' = IF playing THEN [pend EXCEPT !.advance = @ + 1] ELSE pend
            /\ vc' = "disconnecting"
            /\ obs' = [Disturb(obs) EXCEPT !.disconnectCalls = IF @ < 2 THEN @ + 1 ELSE @]
            /\ \E waits \in (IF vc = "connected" THEN {TRUE} ELSE BOOLEAN) :
                 IF waits
                 THEN /\ stops < MaxStops
                      /\ stops' = stops + 1
                      /\ state' = [state EXCEPT !.stopping = TRUE]
                      /\ UNCHANGED registered
                 ELSE /\ registered' = FALSE
                      /\ state' = ServerState
                      /\ UNCHANGED stops
    /\ UNCHANGED <<gen, fetches, advs, enq, load>>

\* bot.py 724-726: disconnect() returns; del self.states[guild_id] raises
\* KeyError when the entry is gone.
StopResume ==
    /\ UNCHANGED <<lim, cache, guilds>>
    /\ stops > 0
    /\ stops' = stops - 1
    /\ vc' = IF vc = "disconnecting" THEN "none" ELSE vc
    /\ registered' = FALSE
    /\ state' = ServerState
    /\ obs' = IF registered THEN Disturb(obs) ELSE [obs EXCEPT !.stopRaised = TRUE]
    /\ UNCHANGED <<gen, playing, fetches, advs, enq, load, pend>>


\* ---------------------------------------------------------------- enqueue
\* play_next(ctx) awaited at the end of a handler whose stretch left the
\* registered object as s1: play_next calls get_state itself.
CallPlayNext(s1, v) ==
    /\ CanGetState
    /\ PlayNextBounded(advs, IF registered THEN s1 ELSE ServerState, v)
    /\ state' = PlayNextState(IF registered THEN s1 ELSE ServerState, v)
    /\ advs' = PlayNextAdvs(advs, IF registered THEN s1 ELSE ServerState, v, GetGen)
    /\ registered' = TRUE
    /\ gen' = GetGen

NoPlayNext(s1) ==
    /\ state' = s1
    /\ UNCHANGED <<registered, gen, advs>>

ObsPop(o, s1, v) ==
    IF PlayNextPops(IF registered THEN s1 ELSE ServerState, v) THEN Disturb(o) ELSE o

PrepareSongNoClear(q) == q

\* bot.py 892 and 908: prepare_song drops every suggested entry.
PrepareSongClear(q) == StripSuggested(q)

\* web.py 458-459 and 473-474: api_add pops the last entry if it is suggested.
ApiAddClear(q) == IF q /= <<>> /\ Last(q).suggested THEN Front(q) ELSE q

EnqueueClear(kind, q) == IF kind = "api" THEN ApiAddClear(q) ELSE PrepareSongClear(q)

\* The id at the tail after an enqueue appended; the request is logged with
\* that id as its argument.
ObsEnqueue(o, tracks) ==
    Logged([o EXCEPT !.tail = Last(tracks).id], "enqueue", Last(tracks).id, "ok")

\* The mutant of EnqAfterJoin: the request goes on after a failed join.
EnqJoinIgnored(joined, req) == req

\* bot.py 897-899 and web.py 461-466, 506: the request goes on to
\* extract_info when the join did not raise, and ends there when it did.
EnqAfterJoin(joined, req) == IF joined THEN req ELSE enq

\* prepare_song up to the await of extract_info (bot.py 884-905).  The join
\* of the voice channel is taken with the first stretch; it can fail.
PrepareSongStart(tracks, isList) ==
    /\ UNCHANGED <<lim, cache, guilds>>
    /\ Idle
    /\ enq.phase = "idle"
    /\ CanGetState
    /\ state' = [GetState EXCEPT !.stopping = FALSE, !.queue = PrepareSongClear(@)]
    /\ registered' = TRUE
    /\ gen' = GetGen
    /\ \E joined \in (IF vc = "none" THEN BOOLEAN ELSE {TRUE}) :
         /\ vc' = IF vc = "none" /\ joined THEN "connected" ELSE vc
         /\ enq' = EnqAfterJoin(joined,
                                [phase |-> "resolving", gen |-> GetGen,
                                 kind |-> IF isList THEN "list" ELSE "single", tracks |-> tracks,
                                 trimmed |-> FALSE])
         /\ obs' = IF vc = "none" /\ joined
                   THEN [Disturb(obs) EXCEPT !.disconnectCalls = 0]
                   ELSE IF joined THEN Disturb(obs)
                   ELSE Logged(Disturb(obs), "join", 0, "error")
    /\ UNCHANGED <<playing, fetches, advs, load, stops, pend>>

\* bot.py 940-943: the forced autoplay task, then play_next when idle;
\* ctx.voice_client is None after a disconnect and .is_playing() raises.
PrepareSongTail(s1, o) ==
    /\ pend.force < MaxPend
    /\ pend' = [pend EXCEPT !.force = @ + 1]
    /\ IF vc /= "none" /\ ~playing
       THEN CallPlayNext(s1, vc) /\ obs' = ObsPop(o, s1, vc)
       ELSE NoPlayNext(s1) /\ obs' = o

\* bot.py 905-943: extract_info returned; clear again, append, and either
\* go on to the tail or suspend in the "Added"/"Queued" message.
PrepareSongResolved ==
    /\ UNCHANGED <<lim, cache, guilds>>
    /\ enq.phase = "resolving"
    /\ enq.kind /= "api"
    /\ Len(StripSuggested(state.queue)) + Len(enq.tracks) <= MaxQueue
    /\ LET s1 == IF Owns(enq.gen)
                 THEN [state EXCEPT !.queue = PrepareSongClear(@) \o enq.tracks]
                 ELSE state
           o == IF Owns(enq.gen) THEN ObsEnqueue(obs, enq.tracks) ELSE obs
       IN IF enq.kind = "list" \/ (vc /= "none" /\ playing)
          THEN /\ enq' = [enq EXCEPT !.phase = "announce",
                                      !.trimmed = Owns(enq.gen) /\ PrepareSongClear(state.queue) /= state.queue]
               /\ state' = s1
               /\ obs' = o
               /\ UNCHANGED <<registered, gen, advs, pend>>
          ELSE /\ enq' = NoEnq
               /\ IF vc = "none"
                  THEN state' = s1 /\ obs' = o /\ UNCHANGED <<registered, gen, advs, pend>>
                  ELSE PrepareSongTail(s1, o)
    /\ UNCHANGED <<vc, playing, fetches, load, stops>>

\* bot.py 928 / 936: the message was sent (or the send raised).
PrepareSongAnnounced ==
    /\ UNCHANGED <<lim, cache, guilds>>
    /\ enq.phase = "announce"
    /\ enq' = NoEnq
    /\ \E sent \in BOOLEAN :
         IF sent
         THEN PrepareSongTail(state, obs)
         ELSE UNCHANGED <<registered, gen, state, advs, pend, obs>>
    /\ UNCHANGED <<vc, playing, fetches, load, stops>>

\* api_add up to the await of extract_info (web.py 441-470).  With no voice
\* client it joins the first channel that has members, if there is one.
ApiAddStart(tracks) ==
    /\ UNCHANGED <<lim, cache, guilds>>
    /\ Idle
    /\ enq.phase = "idle"
    /\ CanGetState
    /\ state' = [GetState EXCEPT !.queue = ApiAddClear(@)]
    /\ registered' = TRUE
    /\ gen' = GetGen
    /\ \E join \in (IF vc = "none" THEN {"ok", "nochannel", "fail"} ELSE {"ok"}) :
         /\ vc' = IF vc = "none" /\ join = "ok" THEN "connected" ELSE vc
         /\ enq' = EnqAfterJoin(join /= "fail",
                                [phase |-> "resolving", gen |-> GetGen, kind |-> "api",
                                 tracks |-> tracks, trimmed |-> FALSE])
         /\ obs' = IF vc = "none" /\ join = "ok"
                   THEN [Disturb(obs) EXCEPT !.disconnectCalls = 0]
                   ELSE IF join /= "fail" THEN Disturb(obs)
                   ELSE Logged(Disturb(obs), "join", 0, "error")
    /\ UNCHANGED <<playing, fetches, advs, load, stops, pend>>

\* web.py 470-505: extract_info returned; pop a trailing suggestion, append,
\* create the forced autoplay task, and call play_next when idle.
ApiAddResolved ==
    /\ UNCHANGED <<lim, cache, guilds>>
    /\ enq.phase = "resolving"
    /\ enq.kind = "api"
    /\ Len(StripSuggested(state.queue)) + Len(enq.tracks) <= MaxQueue
    /\ pend.force < MaxPend
    /\ enq' = NoEnq
    /\ pend' = [pend EXCEPT !.force = @ + 1]
    /\ LET s1 == IF Owns(enq.gen)
                 THEN [state EXCEPT !.queue = ApiAddClear(@) \o enq.tracks]
                 ELSE state
           o == IF Owns(enq.gen) THEN ObsEnqueue(obs, enq.tracks) ELSE obs
       IN \E busy \in (IF Owns(enq.gen) THEN {s1.processing_next} ELSE BOOLEAN) :
            IF vc /= "none" /\ ~playing /\ ~busy
            THEN CallPlayNext(s1, vc) /\ obs' = ObsPop(o, s1, vc)
            ELSE NoPlayNext(s1) /\ obs' = o
    /\ UNCHANGED <<vc, playing, fetches, load, stops>>

\* extract_info raised (bot.py 905: the command fails; web.py 506: 500).
EnqueueFailed ==
    /\ UNCHANGED <<lim, cache, guilds>>
    /\ enq.phase = "resolving"
    /\ enq' = NoEnq
    /\ obs' = Logged(obs, "enqueue", Last(enq.tracks).id, "error")
    /\ UNCHANGED <<registered, gen, state, vc, playing, fetches, advs, load, stops, pend>>

\* ----------------------------------------------------------- loadplaylist
\* /loadplaylist (bot.py 1136-1157) up to its first await: a saved list is
\* appended at once, a live playlist is fetched first.
LoadPlaylistStart(content, live) ==
    /\ UNCHANGED <<lim, cache, guilds>>
    /\ Idle
    /\ load.phase = "idle"
    /\ CanGetState
    /\ live \/ Len(GetState.queue) + Len(content) <= MaxQueue
    /\ state' = IF live THEN GetState ELSE [GetState EXCEPT !.queue = @ \o content]
    /\ load' = [phase |-> IF live THEN "live" ELSE "sent", gen |-> GetGen, rest |-> FALSE]
    /\ registered' = TRUE
    /\ gen' = GetGen
    /\ obs' = Disturb(obs)
    /\ UNCHANGED <<vc, playing, fetches, advs, enq, stops, pend>>

\* bot.py 1148-1153: the first 50 entries arrived (or the fetch raised).
LoadPlaylistFetched(content, ok) ==
    /\ UNCHANGED <<lim, cache, guilds>>
    /\ load.phase = "live"
    /\ ok => Len(state.queue) + Len(content) <= MaxQueue
    /\ state' = IF ok /\ Owns(load.gen) THEN [state EXCEPT !.queue = @ \o content] ELSE state
    /\ load' = [load EXCEPT !.phase = "sent", !.rest = ok]
    /\ obs' = Disturb(obs)
    /\ UNCHANGED <<registered, gen, vc, playing, fetches, advs, enq, stops, pend>>

\* bot.py 1151-1157: after the message, the background loader is created,
\* the voice channel is joined if needed, and play_next is called when idle.
LoadPlaylistTail ==
    /\ UNCHANGED <<lim, cache, guilds>>
    /\ load.phase = "sent"
    /\ load.rest => pend.rest < MaxPend
    /\ load' = NoLoad
    /\ pend' = IF load.rest THEN [pend EXCEPT !.rest = @ + 1] ELSE pend
    /\ \E joined \in (IF vc = "none" THEN BOOLEAN ELSE {TRUE}) :
         /\ vc' = IF vc = "none" /\ joined THEN "connected" ELSE vc
         /\ IF joined /\ ~playing
            THEN CallPlayNext(state, vc') /\ obs' = ObsPop(obs, state, vc')
            ELSE NoPlayNext(state) /\ obs' = obs
    /\ UNCHANGED <<playing, fetches, enq, stops>>

\* load_rest_of_playlist (bot.py 768-793): entries 51.. arrive and are
\* appended to the object get_state returns then.
LoadRestDone(content, ok) ==
    /\ UNCHANGED <<lim, cache, guilds>>
    /\ pend.rest > 0
    /\ pend' = [pend EXCEPT !.rest = @ - 1]
    /\ IF ok
       THEN /\ CanGetState
            /\ Len(GetState.queue) + Len(content) <= MaxQueue
            /\ state' = [GetState EXCEPT !.queue = @ \o content]
            /\ registered' = TRUE
            /\ gen' = GetGen
            /\ obs' = Disturb(obs)
       ELSE UNCHANGED <<registered, gen, state, obs>>
    /\ UNCHANGED <<vc, playing, fetches, advs, enq, load, stops>>

\* ---------------------------------------------------------- specification
\* The requests of a session other than /loadplaylist and stop, and the steps
\* of the coroutines and tasks they leave behind.
NextEnqueue ==
    \/ \E t \in Batches, isList \in BOOLEAN : PrepareSongStart(t, isList)
    \/ PrepareSongResolved
    \/ PrepareSongAnnounced
    \/ \E t \in Batches : ApiAddStart(t)
    \/ ApiAddResolved
    \/ EnqueueFailed
    \/ Shuffle
    \/ Clear
    \/ \E index \in 0..MaxQueue : Remove(index)
    \/ AutoplayToggle
    \/ Regenerate
    \/ \E force \in BOOLEAN : RunEnsureTask(force)
    \/ \E i \in DOMAIN fetches : FetchDone(i)
    \/ RunAdvanceTask
    \/ \E i \in DOMAIN advs : LoadOk(i)
    \/ \E i \in DOMAIN advs : LoadFail(i)
    \/ \E i \in DOMAIN advs : NotifyOk(i)
    \/ \E i \in DOMAIN advs : NotifyFail(i)
    \/ \E i \in DOMAIN advs : BackoffDone(i)
    \/ Finish

\* A session that is not stopped: the requests above and /loadplaylist.
NextSession ==
    \/ NextEnqueue
    \/ \E t \in Batches, live \in BOOLEAN : LoadPlaylistStart(t, live)
    \/ \E t \in Batches, ok \in BOOLEAN : LoadPlaylistFetched(t, ok)
    \/ LoadPlaylistTail
    \/ \E t \in Batches, ok \in BOOLEAN : LoadRestDone(t, ok)

Next ==
    \/ NextSession
    \/ StopStart
    \/ StopResume

Spec == Init /\ [][Next]_vars

InitSession == InitWith(SessionPlays, SessionBusy, MaxFetch, SessionAdv)

SpecSession == InitSession /\ [][NextSession]_vars

\* The same sessions without /loadplaylist: tracks are enqueued by
\* prepare_song and api_add only.
SpecEnqueue == InitSession /\ [][NextEnqueue]_vars

\* Sessions whose requests are taken one at a time, with the failed joins of
\* the voice channel in the log.
InitJoin == InitAll(OpsPlays, OpsBusy, OpsFetch, OpsAdv, {"join"})

SpecJoin == InitJoin /\ [][NextEnqueue]_vars

\* Playback on its own: stored playlists are loaded and tracks are advanced,
\* with autoplay left off.
NextPlayback ==
    \/ \E t \in Batches : LoadPlaylistStart(t, FALSE)
    \/ LoadPlaylistTail
    \/ RunEnsureTask(FALSE)
    \/ RunAdvanceTask
    \/ \E i \in DOMAIN advs : LoadOk(i)
    \/ \E i \in DOMAIN advs : LoadFail(i)
    \/ \E i \in DOMAIN advs : NotifyOk(i)
    \/ \E i \in DOMAIN advs : NotifyFail(i)
    \/ \E i \in DOMAIN advs : BackoffDone(i)
    \/ Finish

InitPlayback == InitWith(MaxPlays, MaxBusy, PlaybackFetch, MaxAdv)

SpecPlayback == InitPlayback /\ [][NextPlayback]_vars

\* Sessions that are stopped: songs are requested with prepare_song, played,
\* and stop_logic is called, possibly twice at once.
NextStop ==
    \/ \E t \in Batches, isList \in BOOLEAN : PrepareSongStart(t, isList)
    \/ PrepareSongResolved
    \/ PrepareSongAnnounced
    \/ EnqueueFailed
    \/ AutoplayToggle
    \/ \E force \in BOOLEAN : RunEnsureTask(force)
    \/ \E i \in DOMAIN fetches : FetchDone(i)
    \/ RunAdvanceTask
    \/ \E i \in DOMAIN advs : LoadOk(i)
    \/ \E i \in DOMAIN advs : LoadFail(i)
    \/ \E i \in DOMAIN advs : NotifyOk(i)
    \/ \E i \in DOMAIN advs : NotifyFail(i)
    \/ \E i \in DOMAIN advs : BackoffDone(i)
    \/ Finish
    \/ StopStart
    \/ StopResume

InitStop == InitWith(StopPlays, StopBusy, StopFetch, StopAdv)

SpecStop == InitStop /\ [][NextStop]_vars

\* The same playback with the retry tasks told apart from the others.
InitRetry == InitAll(MaxPlays, MaxBusy, PlaybackFetch, MaxAdv, {"retry"})

SpecRetry == InitRetry /\ [][NextPlayback]_vars

\* Sessions whose requests are taken one at a time, each after the coroutines
\* of the one before have finished, with the log of the last request kept.
InitOps ==
    InitAll(OpsPlays, OpsBusy, OpsFetch, OpsAdv,
            {"remove", "shuffle", "clear", "enqueue", "ensure"})

SpecOps == InitOps /\ [][NextEnqueue]_vars

\* The same requests with two fetches at a time and one pop.
InitRegen == InitAll(RegenPlays, RegenBusy, RegenFetch, RegenAdv, {"regenerate"})

SpecRegen == InitRegen /\ [][NextEnqueue]_vars

\* Sessions in which the feed always answers: requests of prepare_song, the
\* autoplay toggle, regenerate, clear and remove, and the playback they start.
NextAutoplay ==
    \/ \E t \in Batches, isList \in BOOLEAN : PrepareSongStart(t, isList)
    \/ PrepareSongResolved
    \/ PrepareSongAnnounced
    \/ EnqueueFailed
    \/ Clear
    \/ \E index \in 0..MaxQueue : Remove(index)
    \/ AutoplayToggle
    \/ Regenerate
    \/ \E force \in BOOLEAN : RunEnsureTask(force)
    \/ \E i \in DOMAIN fetches : FetchAnswered(i)
    \/ RunAdvanceTask
    \/ \E i \in DOMAIN advs : LoadOk(i)
    \/ \E i \in DOMAIN advs : LoadFail(i)
    \/ \E i \in DOMAIN advs : NotifyOk(i)
    \/ \E i \in DOMAIN advs : NotifyFail(i)
    \/ \E i \in DOMAIN advs : BackoffDone(i)
    \/ Finish

InitAutoplay == InitWith(LivePlays, LiveBusy, LiveFetch, LiveAdv)

\* The event loop runs every task that is ready and every awaited call
\* returns; requests and the end of a track may stop coming.
SpecAutoplayFair ==
    /\ InitAutoplay
    /\ [][NextAutoplay]_vars
    /\ WF_vars(RunEnsureTask(TRUE))
    /\ WF_vars(RunEnsureTask(FALSE))
    /\ WF_vars(\E i \in DOMAIN fetches : FetchAnswered(i))
    /\ WF_vars(RunAdvanceTask)
    /\ WF_vars(\E i \in DOMAIN advs : LoadOk(i) \/ LoadFail(i))
    /\ WF_vars(\E i \in DOMAIN advs : NotifyOk(i) \/ NotifyFail(i))
    /\ WF_vars(\E i \in DOMAIN advs : BackoffDone(i))
    /\ WF_vars(PrepareSongResolved \/ EnqueueFailed)
    /\ WF_vars(PrepareSongAnnounced)

\* The runs of SpecStop under a fair event loop: every awaited load of a
\* track and every awaited mix fetch returns or raises.
SpecGuardsFair ==
    /\ InitStop
    /\ [][NextStop]_vars
    /\ WF_vars(\E i \in DOMAIN advs : LoadOk(i) \/ LoadFail(i))
    /\ WF_vars(\E i \in DOMAIN advs : NotifyOk(i) \/ NotifyFail(i))
    /\ WF_vars(\E i \in DOMAIN advs : BackoffDone(i))
    /\ WF_vars(RunAdvanceTask)
    /\ WF_vars(\E i \in DOMAIN fetches : FetchDone(i))


\* Sessions that have gone on for a while: n tracks were played, each id once
\* and in order, the last of them is playing, and the users go on asking for
\* the next id.
Played(n) == [i \in 1..n |-> UserTrack(i)]

NextId(s) == IF s.history \o s.queue = <<>> THEN 1 ELSE Last(s.history \o s.queue).id + 1

InitHistory ==
    \E n \in 1..HistoryCap :
       /\ lim = [plays |-> HistoryCap + 1, busy |-> LongBusy, log |-> {}, feed |-> FeedIds]
       /\ registered = TRUE
       /\ gen = 1
       /\ state = [ServerState EXCEPT !.history = Played(n), !.current_track = UserTrack(n)]
       /\ vc = "connected"
       /\ playing = TRUE
       /\ fetches = <<NoFetch>>
       /\ advs = <<NoAdv>>
       /\ enq = NoEnq
       /\ load = NoLoad
       /\ stops = 0
       /\ pend = NoPend
       /\ obs = NoObs
       /\ cache = NoCache
       /\ guilds = NoGuilds

NextHistory ==
    \/ /\ NextId(GetState) <= LongIds
       /\ PrepareSongStart(<<UserTrack(NextId(GetState))>>, FALSE)
    \/ PrepareSongResolved
    \/ PrepareSongAnnounced
    \/ \E force \in BOOLEAN : RunEnsureTask(force)
    \/ RunAdvanceTask
    \/ \E i \in DOMAIN advs : LoadOk(i)
    \/ \E i \in DOMAIN advs : LoadFail(i)
    \/ \E i \in DOMAIN advs : NotifyOk(i)
    \/ \E i \in DOMAIN advs : NotifyFail(i)
    \/ \E i \in DOMAIN advs : BackoffDone(i)
    \/ Finish

SpecHistory == InitHistory /\ [][NextHistory]_vars

\* Sessions whose feed is longer than the cut of the candidate list.
InitFeed ==
    /\ InitLim([plays |-> WidePlays, busy |-> WideBusy, log |-> {}, feed |-> WideFeed], 1, 1)
    /\ cache = NoCache
    /\ guilds = NoGuilds

SpecFeed == InitFeed /\ [][NextAutoplay]_vars

\* ------------------------------------------------------- several guilds
\* The handlers as they act on self.states, each on the entry of the guild
\* it was called for.
\* bot.py 680-683: get_state(guild_id).
GuildState(g) == IF guilds.has[g] THEN guilds.of[g] ELSE ServerState

PutAll(g, s) ==
    [guilds EXCEPT !.has = [h \in Guilds |-> TRUE], !.of = [h \in Guilds |-> s]]

\* bot.py 682: self.states[guild_id] holds the object the handler writes to.
\* bot.py 69: a new ServerState takes the time as its last_interaction.
Put(g, s) ==
    [guilds EXCEPT !.has[g] = TRUE, !.of[g] = s,
                   !.seen[g] = IF guilds.has[g] THEN @ ELSE guilds.now]

\* The guild the handler of the last step was called for.
Did(r, g) == [r EXCEPT !.last = g]

GuildBounded(s, v) == PlayNextPops(s, v) => Len(s.history) < GuildPlays

\* prepare_song (bot.py 884-943) with the voice client joined and the track
\* resolved; play_next is called when nothing is playing.
GuildEnqueue(g, tracks) ==
    /\ Len(StripSuggested(GuildState(g).queue)) < GuildQueue
    /\ guilds.voice[g] /= "disconnecting"
    /\ LET s1 == [GuildState(g) EXCEPT !.stopping = FALSE,
                                       !.queue = PrepareSongClear(@) \o tracks]
           s2 == IF guilds.playing[g] THEN s1 ELSE PlayNextState(s1, "connected")
       IN /\ ~guilds.playing[g] => GuildBounded(s1, "connected")
          /\ guilds' = Did([Put(g, s2) EXCEPT
                              !.voice[g] = "connected",
                              !.seen[g] = guilds.now,
                              !.others[g] = IF guilds.voice[g] = "none" THEN 1 ELSE @,
                              !.quiet[g] = IF guilds.voice[g] = "none" THEN guilds.now ELSE @], g)
    /\ UNCHANGED <<session, cache>>

\* play_next up to voice_client.play (bot.py 960-989).
GuildStarted(g) ==
    /\ guilds.has[g] /\ guilds.of[g].processing_next
    /\ guilds.voice[g] = "connected" /\ ~guilds.playing[g]
    /\ guilds' = Did([Put(g, [guilds.of[g] EXCEPT !.processing_next = FALSE])
                        EXCEPT !.playing[g] = TRUE], g)
    /\ UNCHANGED <<session, cache>>

\* The track of the guild ends: the after-callback's play_next (bot.py 945-958).
GuildAdvance(g) ==
    /\ guilds.playing[g]
    /\ GuildBounded(GuildState(g), guilds.voice[g])
    /\ guilds' = Did([Put(g, PlayNextState(GuildState(g), guilds.voice[g]))
                        EXCEPT !.playing[g] = FALSE, !.quiet[g] = guilds.now], g)
    /\ UNCHANGED <<session, cache>>

\* /autoplay (bot.py 1255-1264) up to the fetch of ensure_autoplay.
GuildAutoplay(g) ==
    /\ LET s1 == [GuildState(g) EXCEPT !.autoplay = ~@]
       IN /\ EnsureFetches(s1, FALSE) => ~guilds.fetch[g].live
          /\ guilds' = Did([Put(g, EnsureState(s1, FALSE)) EXCEPT
                              !.fetch[g] = IF EnsureFetches(s1, FALSE)
                                           THEN [NoFetch EXCEPT !.live = TRUE,
                                                                !.seed = EnsureSeed(s1, FALSE)]
                                           ELSE @], g)
    /\ UNCHANGED <<session, cache>>

\* The mix fetch of the guild's ensure_autoplay returns (bot.py 835-866).
GuildFetched(g) ==
    /\ guilds.fetch[g].live /\ guilds.has[g]
    /\ \E k \in FetchPicks(guilds.of[g], guilds.fetch[g]) :
         guilds' = Did([Put(g, FetchDoneState(guilds.of[g], guilds.fetch[g], k))
                          EXCEPT !.fetch[g] = NoFetch], g)
    /\ UNCHANGED <<session, cache>>

\* /clear, /shuffle and api_remove on the guild's queue.
GuildClear(g) ==
    /\ guilds' = Did(Put(g, [GuildState(g) EXCEPT !.queue = ClearQueue(GuildState(g))]), g)
    /\ UNCHANGED <<session, cache>>

GuildRemove(g, index) ==
    /\ guilds' = Did(Put(g, [GuildState(g) EXCEPT !.queue = RemoveQueue(GuildState(g), index)]), g)
    /\ UNCHANGED <<session, cache>>

\* stop_logic (bot.py 714-726) up to the await of disconnect().
GuildStopStart(g) ==
    /\ guilds.has[g] /\ ~guilds.of[g].stopping
    /\ guilds' = Did([Put(g, [guilds.of[g] EXCEPT !.stopping = TRUE]) EXCEPT
                        !.voice[g] = IF @ = "connected" THEN "disconnecting" ELSE @,
                        !.playing[g] = FALSE,
                        !.quiet[g] = IF guilds.playing[g] THEN guilds.now ELSE @], g)
    /\ UNCHANGED <<session, cache>>

\* bot.py 726: del self.states[guild_id]; the object and what still holds it
\* are out of the registry.
GuildStopEnd(g) ==
    /\ guilds.has[g] /\ guilds.of[g].stopping
    /\ guilds' = Did([guilds EXCEPT !.has[g] = FALSE, !.of[g] = ServerState,
                                    !.voice[g] = "none", !.fetch[g] = NoFetch,
                                    !.seen[g] = 0, !.quiet[g] = 0, !.others[g] = 0,
                                    !.sweep.waiting = IF @ = g THEN 0 ELSE @], g)
    /\ UNCHANGED <<session, cache>>

NextRegistry ==
    \/ \E g \in Guilds, i \in 1..GuildIds : GuildEnqueue(g, <<UserTrack(i)>>)
    \/ \E g \in Guilds : GuildStarted(g)
    \/ \E g \in Guilds : GuildAdvance(g)
    \/ \E g \in Guilds : GuildAutoplay(g)
    \/ \E g \in Guilds : GuildFetched(g)
    \/ \E g \in Guilds : GuildClear(g)
    \/ \E g \in Guilds, index \in 0..GuildQueue : GuildRemove(g, index)
    \/ \E g \in Guilds : GuildStopStart(g)
    \/ \E g \in Guilds : GuildStopEnd(g)

InitRegistry == InitAll(0, 0, 1, 1, {})

SpecRegistry == InitRegistry /\ [][NextRegistry]_vars

\* ------------------------------------------------------------ idle sweep
\* cleanup_loop (bot.py 728-748) runs every two minutes over the guilds that
\* have an entry; the clock stands still while it runs.
SweepDue == guilds.now - guilds.sweep.at >= SweepSeconds
SweepIdle == guilds.sweep.rest = <<>> /\ guilds.sweep.waiting = 0

Tick ==
    /\ guilds.now + TickSeconds <= MaxClock
    /\ ~SweepDue /\ SweepIdle
    /\ guilds' = [guilds EXCEPT !.now = @ + TickSeconds]
    /\ UNCHANGED <<session, cache>>

\* A member joins or leaves the voice channel the bot is in.
MemberMoves(g) ==
    /\ guilds.voice[g] = "connected"
    /\ guilds' = [guilds EXCEPT !.others[g] = 1 - @]
    /\ UNCHANGED <<session, cache>>

\* bot.py 731-732: now, and list(self.states.keys()).  A loop whose body
\* raised is not run again.
SweepStart ==
    /\ SweepDue /\ SweepIdle
    /\ ~guilds.sweep.raised
    /\ guilds' = [guilds EXCEPT
                    !.sweep = [at |-> guilds.now,
                               rest |-> SelectSeq([g \in Guilds |-> g], LAMBDA g : guilds.has[g]),
                               waiting |-> 0, raised |-> FALSE]]
    /\ UNCHANGED <<session, cache>>

IsAlone(g) == guilds.others[g] = 0

\* bot.py 745: nothing plays and last_interaction is more than 300 s back.
IsIdle(g, seen) == ~guilds.playing[g] /\ guilds.sweep.at - seen > IdleSeconds

\* bot.py 733-748: one turn of the loop; stop_logic runs up to its await of
\* disconnect() and the loop waits for it.  self.states[gid] (738) raises
\* KeyError for an id of the list whose entry is gone, which ends the loop.
SweepVisit ==
    /\ guilds.sweep.rest /= <<>> /\ guilds.sweep.waiting = 0
    /\ LET g == Head(guilds.sweep.rest)
           seen == IF guilds.playing[g] THEN guilds.sweep.at ELSE guilds.seen[g]
           r == [guilds EXCEPT !.sweep.rest = Tail(@)]
       IN IF ~guilds.has[g]
          THEN guilds' = [guilds EXCEPT !.sweep.rest = <<>>, !.sweep.raised = TRUE]
          ELSE IF guilds.voice[g] = "none"
          THEN guilds' = r
          ELSE IF IsAlone(g) \/ IsIdle(g, seen)
               THEN guilds' = Did([r EXCEPT !.seen[g] = seen,
                                            !.of[g].stopping = TRUE,
                                            !.voice[g] = "disconnecting",
                                            !.playing[g] = FALSE,
                                            !.quiet[g] = IF guilds.playing[g] THEN guilds.now ELSE @,
                                            !.sweep.waiting = g], g)
               ELSE guilds' = [r EXCEPT !.seen[g] = seen]
    /\ UNCHANGED <<session, cache>>

\* The loop is between two awaits: nothing else runs.
SweepRunning == guilds.sweep.rest /= <<>> /\ guilds.sweep.waiting = 0

NextSweep ==
    \/ ~SweepRunning /\ \E g \in Guilds, i \in 1..GuildIds : GuildEnqueue(g, <<UserTrack(i)>>)
    \/ ~SweepRunning /\ \E g \in Guilds : GuildStarted(g)
    \/ ~SweepRunning /\ \E g \in Guilds : GuildAdvance(g)
    \/ ~SweepRunning /\ \E g \in Guilds : MemberMoves(g)
    \/ ~SweepRunning /\ \E g \in Guilds : GuildStopStart(g)
    \/ ~SweepRunning /\ \E g \in Guilds : GuildStopEnd(g)
    \/ Tick
    \/ SweepStart
    \/ SweepVisit

SpecSweep == InitRegistry /\ [][NextSweep]_vars

\* ------------------------------------------------------------ disk cache
\* utils.py 57 and 89: max_bytes and the level the sweep deletes down to.
MaxKiB == MaxCacheSizeGB * KiBPerGiB

SafeKiB == MaxKiB - MarginKiB

\* A file of CACHE_DIR: <id>.webm or its thumbnail <id>.jpg.
Audio(id, size, mtime) == [id |-> id, ext |-> "webm", size |-> size, mtime |-> mtime]
Thumb(id) == [id |-> id, ext |-> "jpg", size |-> ThumbKiB, mtime |-> 0]
AudioFiles(dir) == {f \in dir : f.ext = "webm"}

RECURSIVE SumSizes(_)
SumSizes(fs) ==
    IF fs = {} THEN 0
    ELSE LET f == CHOOSE f \in fs : TRUE IN f.size + SumSizes(fs \ {f})

\* utils.py 62-67: total_size counts every file of the directory, files holds
\* the .webm entries.
ScanTotal(dir) == SumSizes(dir)

\* utils.py 71: files.sort by st_mtime (the audio files of a run have
\* different modification times).
RECURSIVE SortByMtime(_)
SortByMtime(fs) ==
    IF fs = {} THEN <<>>
    ELSE LET f == CHOOSE f \in fs : \A g \in fs : f.mtime <= g.mtime
         IN <<f>> \o SortByMtime(fs \ {f})

\* The directories the runs start from: up to NumFiles audio files, all with
\* a thumbnail or none with one, every id in cache_map.
DirsOf(n) ==
    { {Audio(i, sz[i], age[i]) : i \in 1..n}
        \cup (IF thumbs THEN {Thumb(i) : i \in 1..n} ELSE {})
      : sz \in [1..n -> AudioSizes], age \in Perms(n), thumbs \in BOOLEAN }

CacheDirs == UNION {DirsOf(n) : n \in 1..NumFiles}

InitCache ==
    /\ InitGuild(0, 0, 1, 1, {})
    /\ guilds = NoGuilds
    /\ \E d \in CacheDirs :
         cache = [NoCache EXCEPT !.dir = d, !.index = {f.id : f \in AudioFiles(d)}]

\* utils.py 57-71: the scan, the test against max_bytes and the sort.
EnforceScan ==
    /\ cache.phase = "idle"
    /\ cache' = [cache EXCEPT
                   !.before = cache.dir,
                   !.deleted = <<>>, !.failed = {}, !.thumbFailed = {}, !.since = 0,
                   !.checked = TRUE,
                   !.total = ScanTotal(cache.dir),
                   !.files = IF ScanTotal(cache.dir) > MaxKiB
                             THEN SortByMtime(AudioFiles(cache.dir)) ELSE <<>>,
                   !.phase = IF ScanTotal(cache.dir) > MaxKiB
                             THEN (IF AudioFiles(cache.dir) = {} THEN "saving" ELSE "evicting")
                             ELSE "done"]
    /\ UNCHANGED <<session, guilds>>

StopsAfterFirst(total) == TRUE

\* utils.py 89: the test that ends the loop.
StopsSweep(total) == total <= SafeKiB

\* What one pass of the loop body (utils.py 74-92) can come to: both removals
\* done, os.remove of the audio file raised, os.remove of the thumbnail raised.
RemoveOutcomes(c) ==
    LET more == Cardinality(c.failed) + Cardinality(c.thumbFailed) < MaxRemoveFails
    IN {"removed"}
         \cup (IF more THEN {"audio_failed"} ELSE {})
         \cup (IF more /\ Thumb(Head(c.files).id) \in c.dir THEN {"thumb_failed"} ELSE {})

\* utils.py 73-92: one pass of the loop.  entry.stat() after the removal (82)
\* answers from the DirEntry's cached stat result of the scan.
EvictRemove(outcome) ==
    /\ cache.phase = "evicting"
    /\ outcome \in RemoveOutcomes(cache)
    /\ LET e == Head(cache.files)
           rest == Tail(cache.files)
           total == IF outcome = "removed" THEN cache.total - e.size ELSE cache.total
           stop == outcome = "removed" /\ StopsSweep(total)
       IN cache' = [cache EXCEPT
                      !.dir = CASE outcome = "removed" -> {f \in @ : f.id /= e.id}
                                [] outcome = "thumb_failed" ->
                                     {f \in @ : f.id /= e.id \/ f.ext /= "webm"}
                                [] OTHER -> @,
                      !.used = IF outcome = "audio_failed" THEN @
                               ELSE SelectSeq(@, LAMBDA id : id /= e.id),
                      !.index = IF outcome = "removed" THEN @ \ {e.id} ELSE @,
                      !.total = total,
                      !.deleted = IF outcome = "audio_failed" THEN @ ELSE Append(@, e.id),
                      !.failed = IF outcome = "audio_failed" THEN @ \cup {e.id} ELSE @,
                      !.thumbFailed = IF outcome = "thumb_failed" THEN @ \cup {e.id} ELSE @,
                      !.files = IF stop THEN <<>> ELSE rest,
                      !.phase = IF stop \/ rest = <<>> THEN "saving" ELSE "evicting"]
    /\ UNCHANGED <<session, guilds>>

\* utils.py 94: save_json(CACHE_MAP_FILE, cache_map).
EvictSave ==
    /\ cache.phase = "saving"
    /\ cache' = [cache EXCEPT !.phase = "done"]
    /\ UNCHANGED <<session, guilds>>

NextCache ==
    \/ EnforceScan
    \/ \E outcome \in {"removed", "audio_failed", "thumb_failed"} : EvictRemove(outcome)
    \/ EvictSave

SpecCache == InitCache /\ [][NextCache]_vars

\* The sweep runs in an executor thread that is never starved.
SpecCacheFair == SpecCache /\ WF_vars(NextCache)

\* --------------------------------------------------------------- prefetch
\* bot.py 962: os.path.exists(local) and os.path.getsize(local) > 1024.
Usable(dir, id) == \E f \in AudioFiles(dir) : f.id = id /\ f.size > MinAudioKiB

\* bot.py 689: os.path.exists of <id>.webm.
Exists(dir, id) == \E f \in AudioFiles(dir) : f.id = id

\* A modification time later than that of every file of the directory.
Stamp(dir) ==
    LET ts == {f.mtime : f \in dir}
    IN 1 + (CHOOSE t \in ts \cup {0} : \A u \in ts : u <= t)

MoveLast(used, id) == Append(SelectSeq(used, LAMBDA u : u /= id), id)

\* The mutant of Touch: the play leaves the modification time alone.
NoTouch(dir, id) == dir

\* bot.py 971: os.utime(local, None).
Touch(dir, id) ==
    {IF f.id = id /\ f.ext = "webm" THEN [f EXCEPT !.mtime = Stamp(dir)] ELSE f : f \in dir}

FreeTasks(c) == {i \in DOMAIN c.tasks : c.tasks[i].phase = "none"}

\* loop.create_task(self.background_download(track)).
Spawn(c, id, streamed) ==
    LET i == CHOOSE i \in FreeTasks(c) : TRUE
    IN [c EXCEPT !.tasks[i] = [id |-> id, phase |-> "new", streamed |-> streamed],
                 !.ops = @ + 1]

\* The directories the prefetch runs start from: up to PrefetchFiles audio
\* files, one of which may be a stub of MinAudioKiB left by an interrupted
\* write.
PrefetchDirs ==
    UNION {{ {IF f.id = bad /\ f.ext = "webm" THEN [f EXCEPT !.size = MinAudioKiB] ELSE f
                : f \in d}
             : d \in DirsOf(n), bad \in 0..n }
           : n \in 1..PrefetchFiles}

InitPrefetch ==
    /\ InitGuild(0, 0, 1, 1, {})
    /\ guilds = NoGuilds
    /\ \E d \in PrefetchDirs :
         cache = [NoCache EXCEPT
                    !.dir = d,
                    !.index = {f.id : f \in AudioFiles(d)},
                    !.used = [i \in 1..Cardinality(AudioFiles(d)) |->
                                SortByMtime(AudioFiles(d))[i].id]]

\* bot.py 961-975, the try block of play_next for the popped track: a usable
\* local file is played and its modification time refreshed, after its
\* thumbnail was fetched when missing (the fetch may fail); otherwise the
\* track is streamed and a background_download task is created.
PlayLocalOrStream(id) ==
    /\ cache.ops < PrefetchOps
    /\ IF Usable(cache.dir, id)
       THEN \E thumbOk \in BOOLEAN :
              cache' = [cache EXCEPT
                          !.dir = Touch(IF thumbOk THEN @ \cup {Thumb(id)} ELSE @, id),
                          !.used = MoveLast(@, id),
                          !.played = @ \cup {id},
                          !.ops = @ + 1]
       ELSE /\ FreeTasks(cache) /= {}
            /\ cache' = Spawn(cache, id, TRUE)
    /\ UNCHANGED <<session, guilds>>

\* bot.py 932, 938 and 993: the download tasks created for enqueued tracks
\* and for the head of the queue.
Prefetch(id) ==
    /\ cache.ops < PrefetchOps
    /\ FreeTasks(cache) /= {}
    /\ cache' = Spawn(cache, id, FALSE)
    /\ UNCHANGED <<session, guilds>>

\* The mutant of DownloadStart: no enforce_cache_limit before the download.
DownloadStartUnchecked(i) ==
    /\ cache.tasks[i].phase = "new"
    /\ cache' = [cache EXCEPT
                   !.tasks[i] = IF Exists(cache.dir, cache.tasks[i].id)
                                THEN NoTask ELSE [@ EXCEPT !.phase = "load"]]
    /\ UNCHANGED <<session, guilds>>

\* bot.py 687-693: background_download returns when <id>.webm exists and
\* otherwise awaits enforce_cache_limit.
DownloadStart(i) ==
    /\ cache.tasks[i].phase = "new"
    /\ cache' = [cache EXCEPT
                   !.tasks[i] = IF Exists(cache.dir, cache.tasks[i].id)
                                THEN NoTask ELSE [@ EXCEPT !.phase = "check"]]
    /\ UNCHANGED <<session, guilds>>

\* utils.py 96-98: the sweep of a waiting task runs in the executor; the
\* sweeps of the runs follow one another.
DownloadScan ==
    /\ \E i \in DOMAIN cache.tasks : cache.tasks[i].phase = "check"
    /\ EnforceScan

\* bot.py 693-695: enforce_cache_limit has returned, do_download is handed to
\* the executor.
DownloadRun(i) ==
    /\ cache.tasks[i].phase = "check"
    /\ cache.phase = "done"
    /\ cache' = [cache EXCEPT !.tasks[i].phase = "load", !.phase = "idle"]
    /\ UNCHANGED <<session, guilds>>

\* bot.py 695-712: do_download writes <id>.webm and <id>.jpg and enters the
\* id in cache_map, or raises and logs.
DownloadDone(i, size, ok) ==
    /\ cache.tasks[i].phase = "load"
    /\ LET id == cache.tasks[i].id
           kept == {f \in cache.dir : f.id /= id}
       IN cache' = IF ok
                   THEN [cache EXCEPT
                           !.tasks[i] = NoTask,
                           !.dir = kept \cup {Audio(id, size, Stamp(cache.dir)), Thumb(id)},
                           !.index = @ \cup {id},
                           !.used = MoveLast(@, id),
                           !.since = @ + size]
                   ELSE [cache EXCEPT !.tasks[i] = NoTask]
    /\ UNCHANGED <<session, guilds>>

NextPrefetch ==
    \/ \E id \in 1..PrefetchIds : PlayLocalOrStream(id)
    \/ \E id \in 1..PrefetchIds : Prefetch(id)
    \/ \E i \in 1..MaxDownloads : DownloadStart(i)
    \/ DownloadScan
    \/ \E outcome \in {"removed", "audio_failed", "thumb_failed"} : EvictRemove(outcome)
    \/ EvictSave
    \/ \E i \in 1..MaxDownloads : DownloadRun(i)
    \/ \E i \in 1..MaxDownloads, size \in AudioSizes, ok \in BOOLEAN : DownloadDone(i, size, ok)

SpecPrefetch == InitPrefetch /\ [][NextPrefetch]_vars

\* ------------------------------------------------------------------ claims
\* The step is the answer to a request of kind op.
Answers(op) == obs'.last.tick /= obs.last.tick /\ obs'.last.op = op

\* All suggested entries of q come after all user entries.
UserBeforeSuggested(q) ==
    \A i, j \in 1..Len(q) : (q[i].suggested /\ ~q[j].suggested) => j < i

LiveFetches(g) == {i \in DOMAIN fetches : fetches[i].live /\ fetches[i].gen = g}

\* C1 (I2): in every reachable state, a suggested track in the queue is the
\* last element of the queue.
C1_SuggestionIsLast ==
    \A i \in 1..Len(state.queue) : state.queue[i].suggested => i = Len(state.queue)

\* C2 (I1): in every reachable state at most one track of the queue is
\* suggested, also after two autoplay fetches completed one after the other.
C2_AtMostOneSuggestion == Len(OnlySuggested(state.queue)) <= 1

\* A fetch has just completed and replaced the suggestion an earlier fetch
\* had appended.
C2_Witness == obs.replaced /\ Len(OnlySuggested(state.queue)) = 1

\* C3 (I3): in every reachable state with autoplay off, the queue holds no
\* suggested track.
C3_NoSuggestionWhenOff == ~state.autoplay => OnlySuggested(state.queue) = <<>>

\* C4 (single-flight): at most one recommendation fetch of a guild's state is
\* in flight at any time.
C4_SingleFlight == \A g \in 1..MaxGen : Cardinality(LiveFetches(g)) <= 1

\* C5 (coalescing): the forced calls made while one fetch is outstanding lead
\* to at most one additional fetch, however many they are.
C5_Coalesced == \A i \in DOMAIN fetches : fetches[i].live => fetches[i].during <= 1

\* The play_next coroutines of state object g that are between setting
\* processing_next (bot.py 954) and clearing it (bot.py 989, 1009).
Advancing(g) == {i \in DOMAIN advs : advs[i].phase = "loading" /\ advs[i].gen = g}

\* C6 (advance re-entrancy): at most one play_next is between setting and
\* clearing processing_next of a guild's state.
C6_OneAdvance == \A g \in 1..MaxGen : Cardinality(Advancing(g)) <= 1

\* C7 (stop idempotent under overlap): over the stop_logic calls of a
\* session, overlapping ones included, disconnect is called at most once and
\* no call raises.
C7_StopOnce == obs.disconnectCalls <= 1 /\ ~obs.stopRaised

\* C8 (stopping is one-way): a step that keeps the guild's state object never
\* takes its stopping flag from true back to false.
C8_StoppingOneWay ==
    [][(registered /\ state.stopping /\ registered' /\ gen' = gen) => state'.stopping]_vars

\* C9 (enqueue ordering): in sessions whose tracks are enqueued by
\* prepare_song and api_add, no reachable state has a user track behind a
\* suggestion in the queue ([U1, S, U2] is unreachable), also when a fetch
\* completes while the enqueue is suspended resolving its track.
C9_NoUserAfterSuggestion == UserBeforeSuggested(state.queue)

\* An enqueue has appended its track after removing a suggestion that a fetch
\* appended while the enqueue was suspended resolving.
C9_Witness ==
    /\ enq.phase = "announce" /\ enq.trimmed /\ Owns(enq.gen)
    /\ Len(state.queue) >= 2
    /\ OnlySuggested(state.queue) = <<>>
    /\ Last(state.queue) = Last(enq.tracks)

\* No fetch, autoplay task or enqueue of the registered state is under way.
Settled ==
    /\ registered
    /\ LiveFetches(gen) = {}
    /\ pend.force = 0 /\ pend.soft = 0
    /\ enq.phase = "idle"

\* The feed of the track with this id has an entry that passes the filter of
\* ensure_autoplay against the user tracks of the queue and the history.
FeedHasCandidate(id) ==
    Candidates([state EXCEPT !.queue = StripSuggested(@)], id, 0) /= <<>>

\* C10 (enqueue re-derivation): with autoplay on and a feed that has an
\* acceptable candidate, once an enqueue has appended a track and the fetches
\* it met or started have completed, with no other request since, the
\* suggestion behind the appended track was fetched with that track as seed.
C10_RederivedFromTail ==
    (obs.tail /= 0 /\ Settled /\ state.autoplay /\ FeedHasCandidate(obs.tail)
        /\ OnlySuggested(state.queue) /= <<>>)
        => Last(state.queue).seed = obs.tail

\* q without its element at position i.
Without(q, i) == [j \in 1..(Len(q) - 1) |-> IF j < i THEN q[j] ELSE q[j + 1]]

\* C11 (removeAt): removing the suggested track while autoplay is on is
\* answered with an error and leaves the queue unchanged; removing a user
\* track at a valid index is answered ok and removes exactly that element,
\* the others keeping their order.
C11_RemoveAt ==
    [][Answers("remove") =>
         LET q == GetState.queue
             i == obs'.last.arg + 1
         IN /\ (i \in 1..Len(q) /\ q[i].suggested /\ GetState.autoplay)
                 => (obs'.last.reply = "error" /\ state'.queue = q)
            /\ (i \in 1..Len(q) /\ ~q[i].suggested)
                 => (obs'.last.reply = "ok" /\ state'.queue = Without(q, i))]_vars

\* A removal of the suggestion was refused with autoplay on, the queue
\* holding a user track and the suggestion.
C11_Witness ==
    /\ obs.last.op = "remove" /\ obs.last.reply = "error"
    /\ state.autoplay
    /\ Len(state.queue) >= 2
    /\ state.queue[obs.last.arg + 1].suggested

\* How often t occurs in q.
Occurs(q, t) == Cardinality({i \in 1..Len(q) : q[i] = t})

\* C12 (shuffle): a shuffle leaves the multiset of queue entries unchanged,
\* keeps the suggested entries where they were relative to each other, and a
\* suggestion that was last before the shuffle is the last entry after it.
C12_Shuffle ==
    [][Answers("shuffle") =>
         LET q == GetState.queue
             r == state'.queue
         IN /\ Len(r) = Len(q)
            /\ \A i \in 1..Len(q) : Occurs(r, q[i]) = Occurs(q, q[i])
            /\ OnlySuggested(r) = OnlySuggested(q)
            /\ (q /= <<>> /\ Last(q).suggested) => Last(r) = Last(q)]_vars

\* A shuffle has acted on two different user tracks followed by a suggestion.
C12_Witness ==
    /\ obs.last.op = "shuffle"
    /\ Len(state.queue) = 3
    /\ ~state.queue[1].suggested /\ ~state.queue[2].suggested
    /\ state.queue[1] /= state.queue[2]
    /\ state.queue[3].suggested

\* C13 (clearUserTracks): a clear leaves no user track in the queue; with
\* autoplay on exactly the suggested entries survive, with autoplay off the
\* queue is empty; current_track and history are unchanged.
C13_Clear ==
    [][Answers("clear") =>
         /\ StripSuggested(state'.queue) = <<>>
         /\ GetState.autoplay => state'.queue = OnlySuggested(GetState.queue)
         /\ ~GetState.autoplay => state'.queue = <<>>
         /\ state'.current_track = GetState.current_track
         /\ state'.history = GetState.history]_vars

\* A clear with autoplay on dropped user tracks and left the suggestion.
C13_Witness ==
    /\ obs.last.op = "clear" /\ obs.last.arg >= 1
    /\ state.autoplay
    /\ Len(state.queue) = 1 /\ state.queue[1].suggested
    /\ state.current_track /= NoTrack

\* The step appended the track of an enqueue to the queue.
Enqueued == Answers("enqueue") /\ obs'.last.reply = "ok"

\* The step popped a track: play_next passed its guards on a non-empty queue.
Popped == Len(state'.history) > Len(GetState.history)

\* C14 (FIFO advance): with autoplay off and a queue of user tracks, an enqueue
\* appends its track at the tail, and an accepted advance removes exactly the
\* front element and makes it current_track, the rest keeping their order.
C14_Fifo ==
    [][(~GetState.autoplay /\ OnlySuggested(GetState.queue) = <<>> /\ (Enqueued \/ Popped)) =>
         LET q == IF Enqueued THEN Append(GetState.queue, UserTrack(obs'.last.arg))
                  ELSE GetState.queue
         IN IF Popped
            THEN /\ state'.current_track = Head(q)
                 /\ state'.queue = Tail(q)
                 /\ state'.history = Append(GetState.history, Head(q))
            ELSE /\ state'.queue = q
                 /\ state'.current_track = GetState.current_track]_vars

\* With autoplay off, an advance has just taken the front of a queue of two
\* user tracks: the other one is left and the popped one is being loaded.
C14_Witness ==
    /\ ~state.autoplay
    /\ Len(state.history) = 2
    /\ Len(state.queue) = 1 /\ ~state.queue[1].suggested
    /\ state.queue[1] /= state.current_track
    /\ \E i \in DOMAIN advs : advs[i].phase = "loading" /\ advs[i].id = state.current_track.id
    /\ obs.last.op = "enqueue"

\* The step is a call of ensure_autoplay(force=False) made as a task.
EnsuredSoft == Answers("ensure") /\ obs'.last.arg = 0

\* The step is the return of a mix fetch to the registered object, without an
\* advance in the same stretch.
FetchReturned ==
    /\ registered /\ registered' /\ gen' = gen
    /\ state.fetching_autoplay /\ ~state'.fetching_autoplay
    /\ state'.history = state.history

\* C15 (ensure_autoplay is idempotent when not forced): with autoplay on, an
\* empty queue and a current track, a non-forced call starts one fetch seeded by
\* the current track, and a fetch that returns leaves at most the one suggestion
\* it appended; a non-forced call made while a suggestion is last starts no
\* fetch and leaves the queue unchanged.
C15_EnsureIdempotent ==
    [][/\ (EnsuredSoft /\ GetState.autoplay /\ ~GetState.fetching_autoplay
             /\ GetState.queue = <<>> /\ GetState.current_track /= NoTrack) =>
            /\ obs'.last.reply = "fetch"
            /\ state'.queue = <<>> /\ state'.fetching_autoplay
            /\ Cardinality({i \in DOMAIN fetches' : fetches'[i].live})
                 = Cardinality({i \in DOMAIN fetches : fetches[i].live}) + 1
            /\ \E i \in DOMAIN fetches' :
                 fetches'[i].live /\ fetches'[i].seed = GetState.current_track.id
       /\ FetchReturned =>
            \/ state'.queue = state.queue
            \/ /\ Len(state'.queue) = Len(StripSuggested(state.queue)) + 1
               /\ Front(state'.queue) = StripSuggested(state.queue)
               /\ Last(state'.queue).suggested
       /\ (EnsuredSoft /\ GetState.autoplay /\ GetState.queue /= <<>>
             /\ Last(GetState.queue).suggested) =>
            /\ obs'.last.reply = "return"
            /\ state'.queue = GetState.queue
            /\ fetches' = fetches
            /\ state'.fetching_autoplay = GetState.fetching_autoplay]_vars

\* A non-forced call has just returned at once: autoplay is on, no fetch is
\* out and the one suggestion is still last.
C15_Witness ==
    /\ obs.last = [op |-> "ensure", arg |-> 0, reply |-> "return", tick |-> obs.last.tick]
    /\ state.autoplay /\ ~state.fetching_autoplay
    /\ \A i \in DOMAIN fetches : ~fetches[i].live
    /\ state.queue /= <<>> /\ Last(state.queue).suggested
    /\ Len(OnlySuggested(state.queue)) = 1

\* The size the cache is held to: the sum over the audio files.
TrackedSize(dir) == SumSizes(AudioFiles(dir))

\* A sweep has ended that found the audio files above the ceiling, with a
\* ceiling above the margin and an audio file it could remove.
SweptOverCeiling ==
    /\ cache.phase = "done"
    /\ TrackedSize(cache.before) > MaxKiB
    /\ MaxKiB > MarginKiB
    /\ \E f \in AudioFiles(cache.before) : f.id \notin cache.failed

\* C16 as stated (eviction post-condition): a sweep over a cache above the
\* ceiling, with ceiling > margin and at least one evictable file, ends with
\* the total at most ceiling - margin.
C16_Original ==
    SweptOverCeiling => TrackedSize(cache.dir) <= SafeKiB

\* C16 (eviction post-condition): every sweep ends, and one over a cache
\* above the ceiling, with ceiling > margin and an evictable file, leaves the
\* total at most ceiling - margin unless removals raised, and then the audio
\* files left are the ones whose removal raised.
C16_EvictionPostcondition ==
    /\ [](SweptOverCeiling =>
            \/ TrackedSize(cache.dir) <= SafeKiB
            \/ \A f \in AudioFiles(cache.dir) : f.id \in cache.failed)
    /\ (cache.phase = "idle" ~> cache.phase = "done")

\* A sweep over a cache above the ceiling has deleted two files and left
\* some, below ceiling - margin.
C16_Witness ==
    /\ SweptOverCeiling
    /\ Len(cache.deleted) >= 2
    /\ AudioFiles(cache.dir) /= {}
    /\ TrackedSize(cache.dir) <= SafeKiB

\* The ids of the oldest files to delete, one after the other, until the sum
\* is at most ceiling - margin.
RECURSIVE ShortestPrefix(_, _)
ShortestPrefix(files, total) ==
    IF files = <<>> THEN <<>>
    ELSE IF total - Head(files).size <= SafeKiB THEN <<Head(files).id>>
    ELSE <<Head(files).id>> \o ShortestPrefix(Tail(files), total - Head(files).size)

\* C17 (eviction order and stop point): when the total exceeds the ceiling and
\* no removal raises, the files deleted are, in ascending modification time,
\* exactly the shortest oldest-first prefix that brings the total to at most
\* ceiling - margin, and every newer file is left.
C17_ShortestOldestPrefix ==
    (SweptOverCeiling /\ cache.failed = {} /\ cache.thumbFailed = {}) =>
        /\ cache.deleted = ShortestPrefix(SortByMtime(AudioFiles(cache.before)),
                                          TrackedSize(cache.before))
        /\ AudioFiles(cache.dir) =
             {f \in AudioFiles(cache.before) : \A i \in DOMAIN cache.deleted : cache.deleted[i] /= f.id}

\* The fetches regenerate_autoplay is waiting for.
RegenFetches(fs) == Cardinality({i \in DOMAIN fs : fs[i].live /\ fs[i].regen})

\* The step is a call of regenerate_autoplay that goes on to fetch.
RegenerateStarted == RegenFetches(fetches') > RegenFetches(fetches)

\* The step is the return of regenerate_autoplay's fetch with nothing to
\* append: the feed held no acceptable candidate, or the fetch raised.
RegeneratedNone ==
    /\ RegenFetches(fetches') < RegenFetches(fetches)
    /\ registered /\ registered' /\ gen' = gen
    /\ state'.queue = state.queue

\* C18 (regenerate with nothing to suggest): regenerate_autoplay takes the
\* suggestion out and touches no user track, and when its fetch comes back
\* with no acceptable candidate or raises, it returns with a queue that holds
\* no suggestion, the user tracks as they were and fetching_autoplay false.
C18_RegenerateNoCandidate ==
    [][/\ RegenerateStarted =>
            state'.queue = StripSuggested(GetState.queue)
       /\ RegeneratedNone =>
            /\ OnlySuggested(state'.queue) = <<>>
            /\ ~state'.fetching_autoplay]_vars

\* Autoplay has what it needs: it is on, there is a seed, and the feed of that
\* seed holds a candidate the filter accepts.
AutoplayCanSuggest ==
    /\ registered /\ state.autoplay
    /\ SeedOf(state.queue, state.current_track, state.history) /= 0
    /\ \/ OnlySuggested(state.queue) /= <<>>
       \/ Candidates(state, SeedOf(state.queue, state.current_track, state.history), 0) /= <<>>

OneSuggestionAtTail ==
    /\ Len(OnlySuggested(state.queue)) = 1
    /\ Last(state.queue).suggested

\* C19 (autoplay liveness): while autoplay is on, a seed exists and the feed
\* offers an acceptable candidate, the queue comes to hold exactly one
\* suggested track, at the tail; and the non-forced pass scheduled when a
\* track has started does run.
C19_AutoplayLive ==
    /\ [](AutoplayCanSuggest => <>(OneSuggestionAtTail \/ ~AutoplayCanSuggest))
    /\ (pend.soft > 0 ~> pend.soft = 0)

\* What the bot holds for a guild.
Entry(r, g) ==
    [has |-> r.has[g], of |-> r.of[g], voice |-> r.voice[g],
     playing |-> r.playing[g], fetch |-> r.fetch[g]]

\* The steps of a guild the claim names: its track ends outside a stop
\* (play_next runs from the after-callback), and /autoplay flips its flag.
TrackEnded(g) ==
    /\ guilds'.last = g
    /\ guilds.playing[g] /\ ~guilds'.playing[g]
    /\ guilds'.of[g].stopping = guilds.of[g].stopping

AutoplayFlipped(g) ==
    /\ guilds'.last = g
    /\ guilds'.has[g] /\ guilds'.of[g].autoplay /= GuildState(g).autoplay

\* C20 (guild independence): a step of a handler called for one guild leaves
\* the entry of every other guild as it was (queue, current_track, history,
\* flags, registry membership), and whether the handler acts depends on its
\* own guild only: an advance whose own guards are clear pops, and an autoplay
\* pass whose own guild has no fetch in flight fetches, whatever flags the
\* other guilds hold.
C20_GuildIndependence ==
    [][/\ \A g \in Guilds :
            g /= guilds'.last => Entry(guilds', g) = Entry(guilds, g)
       /\ \A g \in Guilds :
            /\ (TrackEnded(g) /\ PlayNextPops(GuildState(g), guilds.voice[g])) =>
                 /\ guilds'.of[g].current_track = Head(GuildState(g).queue)
                 /\ guilds'.of[g].processing_next
            /\ (AutoplayFlipped(g)
                  /\ EnsureFetches([GuildState(g) EXCEPT !.autoplay = ~@], FALSE)) =>
                 /\ guilds'.fetch[g].live
                 /\ guilds'.of[g].fetching_autoplay]_vars

\* One guild holds processing_next and fetching_autoplay while the other,
\* called last, has advanced to its second track.
C20_Witness ==
    \E a, b \in Guilds :
       /\ a /= b
       /\ guilds.has[a] /\ guilds.of[a].processing_next /\ guilds.of[a].fetching_autoplay
       /\ guilds.last = b
       /\ guilds.has[b] /\ guilds.of[b].processing_next /\ ~guilds.playing[b]
       /\ Len(guilds.of[b].history) = 2

\* A call of play_next passed its guards and popped: its coroutine is now
\* suspended loading the track.
Loading(i) == advs[i].phase = "idle" /\ advs'[i].phase = "loading"

\* C21 (loading transition): an advance that is accepted on a non-empty queue
\* sets processing_next, pops the front track, makes it current_track and
\* appends it to history, dropping the oldest entry beyond 20; history never
\* holds more than 20 entries, and right after the transition its last entry
\* is current_track.
C21_Loading ==
    /\ [](Len(state.history) <= HistoryCap)
    /\ [][\A i \in DOMAIN advs : Loading(i) =>
            /\ state'.processing_next
            /\ state'.current_track.id = advs'[i].id
            /\ state'.current_track = Last(state'.history)
            /\ state'.history =
                 (IF Len(GetState.history) = HistoryCap
                  THEN Tail(GetState.history) ELSE GetState.history)
                 \o <<state'.current_track>>
            /\ pend'.advance < pend.advance =>
                 /\ GetState.queue /= <<>>
                 /\ state'.current_track = Head(GetState.queue)
                 /\ state'.queue = Tail(GetState.queue)]_vars

\* The after-callback's advance has popped a track into a full history: the
\* first track played is gone from it.
C21_Witness ==
    /\ \E i \in DOMAIN advs : advs[i].phase = "loading"
    /\ state.processing_next
    /\ Len(state.history) = HistoryCap
    /\ state.history[1].id = 3
    /\ state.current_track.id = HistoryCap + 2

\* The load of a popped track has just failed; the retry task has just run.
LoadFailed(i) == advs[i].phase = "loading" /\ advs'[i].phase = "backoff"
Retried == pend.retry /= 0 /\ pend'.retry = 0

\* C22 (failure during loading): when resolving or transcoding the popped
\* track fails, processing_next is cleared, and the retry that follows the
\* backoff, when its guards pass, loads the track that failed.
C22_RetrySameTrack ==
    [][/\ \A i \in DOMAIN advs :
            (LoadFailed(i) /\ Owns(advs[i].gen)) => ~state'.processing_next
       /\ (Retried /\ PlayNextPasses(GetState, vc)) =>
            \E i \in DOMAIN advs : Loading(i) /\ advs'[i].id = pend.retry]_vars

\* A play_next task has just run with its guards passed and the queue empty.
AdvancedOnEmpty ==
    /\ pend'.advance < pend.advance
    /\ PlayNextPasses(GetState, vc)
    /\ GetState.queue = <<>>

\* C23 (queue empty): an advance that is accepted on an empty queue clears
\* current_track and processing_next, starts no playback and no now-playing
\* message, and leaves queue, history and autoplay as they were.
C23_QueueEmpty ==
    [][AdvancedOnEmpty =>
         /\ state'.current_track = NoTrack
         /\ ~state'.processing_next
         /\ state'.queue = <<>>
         /\ state'.history = GetState.history
         /\ state'.autoplay = GetState.autoplay
         /\ playing' = playing
         /\ advs' = advs]_vars

\* The last track has ended with autoplay on and nothing queued: the guild
\* is idle with its history kept and no current track.
C23_Witness ==
    /\ registered /\ vc = "connected" /\ ~playing
    /\ state.current_track = NoTrack /\ ~state.processing_next
    /\ state.queue = <<>> /\ state.history /= <<>> /\ state.autoplay
    /\ pend.advance = 0
    /\ \A i \in DOMAIN advs : advs[i].phase = "idle"

\* A call of ensure_autoplay has just suspended in its fetch, in slot i.
FetchStarted(i) == ~fetches[i].live /\ fetches'[i].live

\* The seed the claim names for a session in state s.
SeedIsRight(s, seed) ==
    LET q == s.queue IN
    \/ \E k \in 1..Len(q) :
         /\ ~q[k].suggested /\ seed = q[k].id
         /\ \A j \in (k + 1)..Len(q) : q[j].suggested
    \/ /\ \A k \in 1..Len(q) : q[k].suggested
       /\ s.current_track /= NoTrack /\ seed = s.current_track.id
    \/ /\ \A k \in 1..Len(q) : q[k].suggested
       /\ s.current_track = NoTrack
       /\ s.history /= <<>> /\ seed = s.history[Len(s.history)].id

NoSeed(s) ==
    /\ \A k \in 1..Len(s.queue) : s.queue[k].suggested
    /\ s.current_track = NoTrack
    /\ s.history = <<>>

\* /autoplay has just turned autoplay on, or an ensure_autoplay task has run
\* with autoplay on.
EnsureCalled ==
    \/ state'.autoplay /\ ~GetState.autoplay
    \/ Answers("ensure") /\ GetState.autoplay

\* C24 (seed selection): the seed of a fetch is the last user track of the
\* queue, else current_track, else the most recent history entry; a call
\* that finds none of them returns without a fetch, with fetching_autoplay
\* and the user tracks of the queue as they were, and a call with autoplay
\* on, no fetch out and no suggestion queued that finds one fetches.
C24_SeedSelection ==
    [][/\ \A i \in DOMAIN fetches :
            FetchStarted(i) => SeedIsRight(GetState, fetches'[i].seed)
       /\ (EnsureCalled /\ NoSeed(GetState)) =>
            /\ fetches' = fetches
            /\ state'.fetching_autoplay = GetState.fetching_autoplay
            /\ StripSuggested(state'.queue) = StripSuggested(GetState.queue)
       /\ (EnsureCalled /\ ~NoSeed(GetState) /\ ~GetState.fetching_autoplay
             /\ OnlySuggested(GetState.queue) = <<>>) =>
            \E i \in DOMAIN fetches : FetchStarted(i)]_vars

\* A fetch is out whose seed is the last track played: nothing is current
\* and the queue holds no user track.
C24_Witness ==
    /\ state.autoplay /\ state.fetching_autoplay
    /\ state.current_track = NoTrack /\ state.queue = <<>> /\ state.history /= <<>>
    /\ \E i \in DOMAIN fetches :
         fetches[i].live /\ fetches[i].seed = Last(state.history).id

\* The fetch in slot i has just returned to the registered object and changed
\* its queue, without an advance in the same stretch.
FetchAppended(i) ==
    /\ fetches[i].live /\ Owns(fetches[i].gen)
    /\ fetches' = Compact([fetches EXCEPT ![i] = NoFetch])
    /\ registered' /\ gen' = gen
    /\ state'.history = state.history
    /\ state'.queue /= state.queue

\* Entry p of the feed of a fetch passes the filter in state s.
Acceptable(s, f, p) ==
    LET e == Feed(f.seed)[p] IN
    /\ e /= f.seed
    /\ f.avoid /= 0 => e /= f.avoid
    /\ \A j \in 1..Len(s.history) : (Len(s.history) - j < HistoryCap) => s.history[j].id /= e
    /\ \A j \in 1..Len(s.queue) : s.queue[j].id /= e

\* C25 (candidate exclusion): the suggestion a fetch appends is an entry of
\* the feed of its seed other than the seed, the ids its caller avoids, the
\* ids of the last 20 history entries and the ids in the queue at that
\* moment, and fewer than 5 acceptable entries come before it in the feed.
C25_CandidateExclusion ==
    [][\A i \in DOMAIN fetches : FetchAppended(i) =>
         /\ state'.queue /= <<>> /\ Last(state'.queue).suggested
         /\ \E p \in DOMAIN Feed(fetches[i].seed) :
              /\ Feed(fetches[i].seed)[p] = Last(state'.queue).id
              /\ Acceptable(state, fetches[i], p)
              /\ Cardinality({j \in 1..(p - 1) : Acceptable(state, fetches[i], j)})
                   < MaxCandidates]_vars

\* A suggestion is at the tail that was picked from a feed with more
\* acceptable entries than the cut keeps.
C25_Witness ==
    /\ state.autoplay
    /\ state.queue /= <<>> /\ Last(state.queue).suggested
    /\ Last(state.queue).seed = state.current_track.id
    /\ Len(CandidatesUncut([state EXCEPT !.queue = StripSuggested(@)],
                            Last(state.queue).seed, 0)) > MaxCandidates
    /\ \A i \in DOMAIN fetches : ~fetches[i].live

\* The sweep has just looked at guild g, which is in a voice channel, and
\* whether it called stop_logic for it.
SweepLooked(g) ==
    /\ guilds.sweep.rest /= <<>> /\ Head(guilds.sweep.rest) = g
    /\ guilds'.sweep.rest = Tail(guilds.sweep.rest)
    /\ guilds.has[g] /\ guilds.voice[g] /= "none"

SweepStopped(g) == SweepLooked(g) /\ guilds'.of[g].stopping /\ ~guilds.of[g].stopping

\* C26 (idle sweep): the sweep calls stop_logic for a guild exactly when the
\* bot is alone in its voice channel or nothing has played there for more
\* than 300 s; a guild that is playing with another member present is never
\* stopped by it.
C26_IdleSweep ==
    [][\A g \in Guilds : SweepLooked(g) =>
         /\ SweepStopped(g) <=>
              \/ guilds.others[g] = 0
              \/ ~guilds.playing[g] /\ guilds.now - guilds.quiet[g] > IdleSeconds
         /\ (guilds.playing[g] /\ guilds.others[g] > 0) => ~SweepStopped(g)]_vars

\* The ids of the tracks the session of s played or still holds that have no
\* entry in cache_map.
Uncached(s) ==
    {t.id : t \in {s.history[i] : i \in DOMAIN s.history}
                    \cup {s.queue[i] : i \in DOMAIN s.queue} \cup {s.current_track}}
      \ ({0} \cup cache.index)

\* stop_logic deletes the entry of the registry in this step.
StopReturned == registered /\ ~registered'

\* C27: stop marks the session as stopping, disconnects, schedules a final
\* background download pass for the session's tracks that are not cached and
\* only then removes the entry: whenever stop removes the entry of a session
\* with uncached tracks, a download task for one of them has been created.
C27_StoppingSequence ==
    [][(StopReturned /\ Uncached(state) /= {})
         => \E i \in DOMAIN cache'.tasks :
              /\ cache'.tasks[i].phase /= "none"
              /\ cache'.tasks[i].id \in Uncached(state)]_vars

\* No sweep is between its scan and its end, and a sweep has run or a
\* download has completed.
AfterCheck == cache.phase \in {"idle", "done"} /\ (cache.checked \/ cache.since > 0)

\* The KiB of the audio files whose removal raised in the last sweep.
FailedKiB == SumSizes({f \in AudioFiles(cache.before) : f.id \in cache.failed})

\* C28 as stated: after any sequence of prefetches the size of the audio
\* files exceeds the ceiling by at most the size of the downloads completed
\* since the last eviction check.
C28_Original == AfterCheck => TrackedSize(cache.dir) <= MaxKiB + cache.since

\* C28: every background download runs the eviction check before it
\* downloads, so after any sequence of prefetches the size of the audio files
\* exceeds the ceiling by at most the size of the downloads completed since
\* the last eviction check plus the size of the files whose removal raised in
\* that check.
C28_StorageBound == AfterCheck => TrackedSize(cache.dir) <= MaxKiB + cache.since + FailedKiB

\* Downloads that followed a check have taken the audio files over the
\* ceiling.
C28_Witness ==
    /\ AfterCheck
    /\ cache.checked
    /\ cache.since > 0
    /\ cache.failed = {}
    /\ TrackedSize(cache.dir) > MaxKiB

\* The last play or write of id a came before that of id b.
UsedBefore(a, b) ==
    \E i, j \in DOMAIN cache.used : i < j /\ cache.used[i] = a /\ cache.used[j] = b

\* The step deletes the audio file the sweep is at; the file was played from
\* the cache and has not been touched since the scan of this sweep.
PlayedEvicted ==
    /\ cache.phase = "evicting"
    /\ Head(cache.files) \in cache.dir
    /\ Head(cache.files).id \in cache.played
    /\ ~Exists(cache'.dir, Head(cache.files).id)

\* The audio files untouched since the scan whose last play or write came
\* before that of the file the sweep is at.
OlderLeft ==
    {g \in AudioFiles(cache.dir) \cap cache.before : UsedBefore(g.id, Head(cache.files).id)}

\* C29 as stated: a file played from the cache is deleted by a later sweep
\* only after every cached file not played or written since is gone.
C29_Original == [][PlayedEvicted => OlderLeft = {}]_vars

\* C29: playing a track from the cache refreshes its modification time, so a
\* later sweep deletes that file only after it has deleted, or failed to
\* remove, every cached file that was not played or written since.
C29_RecencyProtection == [][PlayedEvicted => \A g \in OlderLeft : g.id \in cache.failed]_vars

\* A sweep has deleted a file that was played from the cache, after a file
\* that was not.
C29_Witness ==
    /\ Len(cache.deleted) >= 2
    /\ cache.deleted[Len(cache.deleted)] \in cache.played
    /\ cache.deleted[1] \notin cache.played
    /\ cache.failed = {}

\* The background_download task i that play_next created when it streamed
\* ends in this step, and not because the download raised.
StreamFillEnded(i) ==
    /\ cache.tasks[i].streamed
    /\ cache'.tasks[i].phase = "none"
    /\ \/ cache.tasks[i].phase = "new"
       \/ cache.tasks[i].phase = "load" /\ cache'.dir /= cache.dir

\* C30: when the advance finds no usable local copy of the track (absent or
\* trivially small) it streams and starts a background download of the same
\* track, so that once the download can succeed a later advance plays the
\* local copy: when that download task ends without an error, the cache
\* holds a usable file of the track.
C30_CacheFillOnStream ==
    [][\A i \in DOMAIN cache.tasks :
         StreamFillEnded(i) => Usable(cache'.dir, cache.tasks[i].id)]_vars

\* The user entries of q, in order.
UserTracks(q) == SelectSeq(q, LAMBDA t : ~t.suggested)

\* C31: when joining the voice channel fails, the enqueue request ends with
\* the error: it does not go on to resolve the track, no track is appended to
\* the queue and no advance is started.
C31_ConnectFailureAborts ==
    [][Answers("join") =>
         /\ obs'.last.reply = "error"
         /\ enq' = enq
         /\ UserTracks(state'.queue) = UserTracks(GetState.queue)
         /\ advs' = advs
         /\ pend' = pend
         /\ ~playing']_vars

\* A join has failed for a request while the session held a track.
C31_Witness ==
    /\ obs.last.op = "join"
    /\ obs.last.reply = "error"
    /\ vc = "none"
    /\ state.queue /= <<>>

\* C32: an enqueue that fails (here: the join of the voice channel raised)
\* leaves the queue as it was before the request, the trailing suggestion
\* and the stopping flag included.
C32_FailedEnqueueKeepsQueue ==
    [][Answers("join") =>
         /\ state'.queue = GetState.queue
         /\ state'.stopping = GetState.stopping]_vars

\* C33: no track is popped from the queue while the voice client is playing
\* another one; a retry after a failed load, or after a failed now-playing
\* message once playback has started, pops nothing while a track plays.
C33_NoPopWhilePlaying == [][Popped => ~playing]_vars

\* The session has popped as many tracks as the run follows.
PopsUsedUp == Len(state.history) >= lim.plays

Downloading == {i \in DOMAIN cache.tasks : cache.tasks[i].phase \in {"check", "load"}}

\* C35: at most one background download per track id is in flight; a request
\* for a track that is cached or already being downloaded, like the prefetch
\* of the enqueue and the download of the stream for the same track, starts
\* no second download.
C35_OneDownloadPerTrack ==
    \A i, j \in Downloading : cache.tasks[i].id = cache.tasks[j].id => i = j

\* C36: the periodic sweep tolerates the removal of a guild's entry while it
\* is suspended in the stop of another guild: it does not raise.
C36_SweepTolerates == ~guilds.sweep.raised

\* A play_next task created before the entry was removed (by the
\* after-callback or by a retry) starts in this step.
LeftoverAdvance == ~registered /\ pend.advance > 0 /\ pend'.advance < pend.advance

\* C37: once stop has removed a guild's state, work begun before the stop
\* (the after-callback fired by the disconnect, a suspended advance or its
\* retry, a mix fetch in flight) neither recreates an entry of the registry
\* nor modifies the state of a later session.
C37_NoResurrection == [][LeftoverAdvance => ~registered']_vars

\* The step runs code of ensure_autoplay or regenerate_autoplay: a task of
\* ensure_autoplay runs, a call suspends in its mix fetch, or the fetch of a
\* call that was not made by the autoplay toggle returns.
EngineStep ==
    \/ pend'.force < pend.force
    \/ pend'.soft < pend.soft
    \/ \E i \in DOMAIN fetches : FetchStarted(i)
    \/ \E i \in DOMAIN fetches :
         /\ fetches[i].live /\ ~fetches[i].toggle
         /\ fetches' = Compact([fetches EXCEPT ![i] = NoFetch])

\* C38: ensure_autoplay and regenerate_autoplay, in any interleaving, only
\* add or remove suggested entries: the user tracks of the queue keep their
\* number and order, and current_track and history are not changed.
C38_EngineFrame ==
    [][EngineStep =>
         /\ UserTracks(state'.queue) = UserTracks(GetState.queue)
         /\ state'.current_track = GetState.current_track
         /\ state'.history = GetState.history]_vars

\* regenerate_autoplay waits for its fetch while another fetch of the session
\* is out, and the queue holds a user track.
C38_Witness ==
    /\ Cardinality(LiveFetches(gen)) >= 2
    /\ \E i \in DOMAIN fetches : fetches[i].live /\ fetches[i].regen
    /\ UserTracks(state.queue) /= <<>>
    /\ state.current_track /= NoTrack

\* C39: user tracks take precedence over the suggestion: an advance never
\* pops a suggested track while a user track is in the queue, whichever
\* operation added the user tracks.
C39_UserTracksFirst ==
    [][(Popped /\ state'.current_track.suggested) => UserTracks(state'.queue) = <<>>]_vars

====
